---- MODULE Spec2Model ----
(***************************************************************************)
(* State-machine model of spacerocks-bevy: the level asteroid budget       *)
(* allocator, level loading, projectile/asteroid/UFO combat resolution and *)
(* the ship's lives, shield and beam state, weapon powerups, the movement  *)
(* and asteroid-asteroid collision systems, level completion, and the      *)
(* systems that read the ship (the UFO's gun, the HUD, the shield sprite), *)
(* the Shape functions, the UFO spawn threshold, the beam among its        *)
(* targets, the cooldown of the discrete weapons, the choice of the        *)
(* weapon, the invulnerable ship and the high-score table.                 *)
(*                                                                         *)
(* Units.  Time is counted in units of 1/160 s (TimeScale per second), so  *)
(* that every lerp(..., (level - 1) / 8) of a cooldown is a whole number;  *)
(* a frame lasts a multiple of DeltaStep.  Plasma power and penetration    *)
(* depth are counted in half points (PowerScale), so that the f32 ceil()   *)
(* of the damage is observable.                                            *)
(* Geometry is abstracted: whether two shapes intersect, and how deep, is  *)
(* drawn fresh each time a system tests a pair; the movement model keeps   *)
(* positions on one axis, in cells of 4 px.  The Shape functions are       *)
(* computed: two circles with f32 arithmetic in units of 2^-22 px, a       *)
(* circle and a line in whole px with exact fractions.                     *)
(***************************************************************************)
EXTENDS Integers, Sequences, FiniteSets, TLC

(* ---------------------------------------------------------------------- *)
(* Bounds of the model                                                     *)
(* ---------------------------------------------------------------------- *)
MaxLevel == 41
MaxDelta == 2            \* a frame lasts DeltaStep * (1..MaxDelta)
MaxEntities == 7         \* entity ids handed out in one run of the combat model
MaxStartIntegrity == 4   \* largest integrity / life a target starts the combat model with
MaxUfoLife == 2           \* largest life a ufo starts the combat model with
MaxFrames == 2            \* frames of one run of the combat model
MaxHits == 2              \* intersecting pairs found by one run of a hit system
MaxOverlap == 8          \* deepest penetration of a plasma ball, in half points
MaxBeamDistance == 1     \* farthest obstruction the beam is clamped to
MaxShipFrames == 1       \* frames of one run of the ship model
MaxBeamFrames == 3       \* frames of one run of the beam model
MaxLives == 2            \* most lives the ship starts the ship model with
MaxShield == 1           \* most shield charges the ship starts the ship model with
MaxStartLevel == 2       \* highest beam level the ship starts the ship model with
MaxSpeed == 1            \* fastest asteroid, along the line of centres
MaxCoord == 3            \* the edge of the screen, in cells from the origin
MaxMotionFrames == 1     \* frames of one run of the motion model
MaxDrift == 2            \* fastest asteroid of the bounce model
MaxBounceFrames == 2     \* frames of one run of the bounce model
MaxFrac == 7             \* sub-pixel offsets of a circle's centre, in units of 2^-22 px
MaxAlong == 14           \* farthest centre of a circle along the line, in px
MaxAcross == 8           \* farthest centre of a circle beside the line, in px
MaxSpawnFrames == 3      \* frames of the UFO spawn model
MaxBeamHitFrames == 2    \* frames of the model of the beam among targets
MaxFireFrames == 4       \* frames of the model of the discrete weapons
MaxSelectFrames == 1     \* frames of the model of the weapon selection
MaxDraw == 7             \* the draws of random::<f32>() are 0/8 .. 7/8
MaxCycleLevel == 1       \* weapon levels of the ship whose weapon is cycled
MaxInvulnerableFrames == 1 \* frames of the model of the invulnerable ship
MaxTable == 3            \* largest MAX_HIGH_SCORE_ENTRIES and NUM_HIGH_SCORE_ENTRY_LETTERS
MaxHighScore == 3        \* largest score of a game and of an entry of the table
MaxEntryFrames == 3      \* frames of the entry of a name
MaxHudFrames == 2         \* frames of the HUD model
MaxLevelFrames == 2      \* frames of one run of the level model

(* ---------------------------------------------------------------------- *)
(* components.rs: AsteroidSize                                             *)
(* ---------------------------------------------------------------------- *)
Tiny == 0
Small == 1
Medium == 2
Large == 3
AsteroidSize == {Tiny, Small, Medium, Large}
None == -1

smaller(size) ==
    CASE size = Tiny -> None
      [] size = Small -> Tiny
      [] size = Medium -> Small
      [] size = Large -> Medium

RECURSIVE cost(_)
cost(size) == IF size = Tiny THEN 1 ELSE 2 * cost(smaller(size))

(* ---------------------------------------------------------------------- *)
(* resources.rs: Level                                                     *)
(* ---------------------------------------------------------------------- *)
asteroid_sizes_early_medium(l) ==
    IF l <= 3 THEN <<Large>>
    ELSE IF l <= 8 THEN <<Large, Medium>>
    ELSE IF l <= 12 THEN <<Large, Medium, Small>>
    ELSE <<Large, Medium, Small, Tiny>>

asteroid_sizes(l) ==
    IF l <= 4 THEN <<Large>>
    ELSE IF l <= 8 THEN <<Large, Medium>>
    ELSE IF l <= 12 THEN <<Large, Medium, Small>>
    ELSE <<Large, Medium, Small, Tiny>>

(* a fragment count that does not grow with the level *)
asteroid_frag_count_of_two(l) == 2

asteroid_frag_count(l) == 2 + l \div 20

asteroids_budget_no_wrap(l) == (l + 2) * cost(Large)

asteroids_budget(l) == ((l % 20) + 2) * cost(Large)

asteroids_scan_unchecked(budget, size) ==
    IF budget > 0 THEN [budget |-> budget - cost(size), item |-> size]
    ELSE [budget |-> budget, item |-> None]

(* The closure handed to scan(): the new budget and the item yielded       *)
(* (None ends the iterator).                                               *)
asteroids_scan(budget, size) ==
    IF budget >= cost(size) THEN [budget |-> budget - cost(size), item |-> size]
    ELSE IF budget > 0 THEN [budget |-> budget - 1, item |-> Tiny]
    ELSE [budget |-> budget, item |-> None]

(* The element cycle() hands out at position pos (0-based).                *)
cycle_at(sizes, pos) == sizes[(pos % Len(sizes)) + 1]

(* The whole iterator collected, as load_level's for loop consumes it.     *)
RECURSIVE asteroids_from(_, _, _)
asteroids_from(sizes, budget, pos) ==
    LET r == asteroids_scan(budget, cycle_at(sizes, pos))
    IN  IF r.item = None THEN <<>>
        ELSE <<r.item>> \o asteroids_from(sizes, r.budget, pos + 1)

Level_asteroids(l) == asteroids_from(asteroid_sizes(l), asteroids_budget(l), 0)

(* bundles.rs: AsteroidBundle::new *)
AsteroidBundle_new(variant, size) ==
    [size |-> size, integrity |-> size * 4 + 1, variant |-> variant]

(* ---------------------------------------------------------------------- *)
(* constants.rs (the file is not part of the sources at hand)              *)
(* ---------------------------------------------------------------------- *)
ASTEROID_VARIANTS == 20
LEVEL_START_DELAY == 32
BEAM_DAMAGE_PER_HIT == 1
BEAM_HIT_INTERVAL == 16

(* ---------------------------------------------------------------------- *)
(* Units                                                                   *)
(* ---------------------------------------------------------------------- *)
TimeScale == 160
DeltaStep == 16
PowerScale == 2
Deltas == {DeltaStep * k : k \in 1..MaxDelta}

Min(a, b) == IF a <= b THEN a ELSE b
Max(a, b) == IF a >= b THEN a ELSE b

(* f32::ceil of a non-negative number of half points, in whole points *)
ceil(x) == (x + PowerScale - 1) \div PowerScale

(* Bags of entity ids: the despawn commands queued for an entity *)
BagAdd(b, e) == IF e \in DOMAIN b THEN [b EXCEPT ![e] = @ + 1] ELSE b @@ (e :> 1)
BagCount(b, e) == IF e \in DOMAIN b THEN b[e] ELSE 0

(* Query iteration order: entities in the order they were spawned *)
RECURSIVE iter(_)
iter(S) ==
    IF S = {} THEN <<>>
    ELSE LET m == CHOOSE x \in S : \A y \in S : x <= y
         IN  <<m>> \o iter(S \ {m})

NoState == "NoState"
NoShip == [exists |-> FALSE]
NoHud == [exists |-> FALSE]
NoShield == [exists |-> FALSE]
NoPanic == "NoPanic"

(* main.rs random_ufo_interval: (random::<f32>() * (MAX - MIN) + MIN) as u32 *)
(* with random in [0, 1); the two ends of the range                         *)
UFO_SCORE_INTERVAL_MIN == 400
UFO_SCORE_INTERVAL_MAX == 800
random_ufo_interval == {UFO_SCORE_INTERVAL_MIN, UFO_SCORE_INTERVAL_MAX - 1}
NoGeometry == [kind |-> "none"]
NoCycle == [pc |-> "idle"]
NoHighScore == [entries |-> <<>>]

VARIABLES
    level,                    \* GameState.level / Level.0
    score,                    \* GameState.score
    alloc,                    \* the iterator returned by Level::asteroids while it is driven
    app_state,                \* State<AppState>
    next_state,               \* NextState<AppState>
    level_start_delay_timer,  \* LevelStartDelayTimer
    asteroids,                \* entity id -> Asteroid component
    ufos,                     \* entity id -> Ufo component
    projectiles,              \* entity id -> ShipProjectile, its CollisionShape radius, Expiring
    powerups,                 \* entity id -> Powerup component
    beam,                     \* the Beam component of the beam entity
    next_entity,              \* the next unused entity id
    ship,                     \* the Ship entity (NoShip before the first load_level)
    commands,                 \* Commands queued during the frame, applied by the flush
    ran,                      \* the Update systems that have run in the current frame
    time_delta,               \* Time::delta of the current frame
    frame,                    \* history: the number of frames completed
    hits,                     \* history: the hits resolved by the hit system that ran last
    destroyed,                \* history: asteroid id -> times destroyed and score awarded
    ufo_drops,                \* history: ufo id -> powerups, explosions and score produced
    poses,                    \* entity id -> Transform, Moving, GlobalTransform, CollisionShape.transform
    lasers,                   \* entity id -> UfoLaser
    hud,                      \* the HUD component (NoHud before the first one is spawned)
    shield,                   \* the ShipShield child of the ship
    panicked,                 \* the system whose panic ended the program, or NoPanic
    next_ufo_score,           \* GameState.next_ufo_score
    geometry,                 \* two Shapes and what the Shape functions returned for them
    weapon_cycle,             \* the iterator of Ship::next_weapon / prev_weapon while it is driven
    high_score                \* the HighScore resource and the entry of a name into it

allocVars == <<alloc>>
stateVars == <<app_state, next_state, level_start_delay_timer>>
worldVars == <<asteroids, next_entity, ship>>
combatVars == <<score, ufos, projectiles, powerups, beam, commands, hits, destroyed, ufo_drops>>
frameVars == <<ran, time_delta, frame>>
otherVars == <<lasers, hud, shield, panicked, next_ufo_score, geometry, weapon_cycle, high_score>>
vars == <<level, score, alloc, app_state, next_state, level_start_delay_timer,
          asteroids, ufos, projectiles, powerups, beam, next_entity, ship,
          commands, ran, time_delta, frame, hits, destroyed, ufo_drops, poses,
          lasers, hud, shield, panicked, next_ufo_score, geometry, weapon_cycle, high_score>>

IdleAlloc == [pc |-> "idle", budget |-> 0, pos |-> 0, out |-> <<>>]

(* ---------------------------------------------------------------------- *)
(* Level::asteroids, one next() at a time                                  *)
(* ---------------------------------------------------------------------- *)
asteroids_iter ==
    /\ alloc.pc = "idle"
    /\ alloc' = [pc |-> "iter", budget |-> asteroids_budget(level), pos |-> 0, out |-> <<>>]
    /\ UNCHANGED <<level, poses, otherVars, stateVars, worldVars, combatVars, frameVars>>

asteroids_next ==
    /\ alloc.pc = "iter"
    /\ LET r == asteroids_scan(alloc.budget, cycle_at(asteroid_sizes(level), alloc.pos))
       IN  alloc' = IF r.item = None
                    THEN [alloc EXCEPT !.pc = "done"]
                    ELSE [alloc EXCEPT !.budget = r.budget,
                                       !.pos = alloc.pos + 1,
                                       !.out = Append(alloc.out, r.item)]
    /\ UNCHANGED <<level, poses, otherVars, stateVars, worldVars, combatVars, frameVars>>

(* ---------------------------------------------------------------------- *)
(* main.rs: application states, loading, load_level                        *)
(* ---------------------------------------------------------------------- *)
AppState == {"Loading", "LoadLevel", "InGame"}

(* Timer::from_seconds(d, TimerMode::Once) and Timer::tick *)
Timer_from_ticks(d) == [duration |-> d, elapsed |-> 0, finished |-> FALSE, just_finished |-> FALSE]

Timer_tick(t, dt) ==
    IF t.finished THEN [t EXCEPT !.just_finished = FALSE]
    ELSE IF t.elapsed + dt >= t.duration
         THEN [t EXCEPT !.elapsed = t.duration, !.finished = TRUE, !.just_finished = TRUE]
         ELSE [t EXCEPT !.elapsed = t.elapsed + dt]

asteroid_variant(l) == l % ASTEROID_VARIANTS

(* ShipBundle::new: the Ship component the game starts with *)
StartShip == [exists |-> TRUE]

(* load_level, the OnEnter(LoadLevel) system *)
load_level ==
    LET sizes == Level_asteroids(level)
        ids == next_entity .. (next_entity + Len(sizes) - 1)
    IN  /\ asteroids' = [e \in DOMAIN asteroids \cup ids |->
                            IF e \in ids
                            THEN AsteroidBundle_new(asteroid_variant(level),
                                                    sizes[e - next_entity + 1])
                            ELSE asteroids[e]]
        /\ next_entity' = next_entity + Len(sizes)
        /\ ship' = IF ~ship.exists THEN StartShip ELSE ship
        /\ level_start_delay_timer' = Timer_from_ticks(LEVEL_START_DELAY)

(* loading: once the asset group is loaded, ask for LoadLevel *)
loading ==
    /\ app_state = "Loading"
    /\ next_state = NoState
    /\ next_state' = "LoadLevel"
    /\ UNCHANGED <<level, poses, otherVars, allocVars, app_state, level_start_delay_timer, worldVars, combatVars, frameVars>>

(* apply_state_transition: OnExit of the old state, OnEnter of the new one; *)
(* it runs before the frame's Update systems                                *)
apply_state_transition ==
    /\ next_state # NoState
    /\ ran = {}
    /\ app_state' = next_state
    /\ next_state' = NoState
    /\ IF next_state = "LoadLevel"
       THEN load_level
       ELSE UNCHANGED <<level_start_delay_timer, worldVars>>
    /\ UNCHANGED <<level, poses, otherVars, allocVars, combatVars, frameVars>>

level_start_delay_system(dt) ==
    /\ app_state = "LoadLevel"
    /\ next_state = NoState
    /\ level_start_delay_timer' = Timer_tick(level_start_delay_timer, dt)
    /\ next_state' = IF level_start_delay_timer'.just_finished THEN "InGame" ELSE next_state
    /\ UNCHANGED <<level, poses, otherVars, allocVars, app_state, worldVars, combatVars, frameVars>>

(* ---------------------------------------------------------------------- *)
(* main.rs: the InGame frame.  The systems of a frame run once each, in    *)
(* any order the declared constraints allow (the tuples handed to          *)
(* add_systems are not chained); Commands take effect when the frame's     *)
(* buffers are applied.                                                    *)
(* ---------------------------------------------------------------------- *)
NoCommands == [despawn |-> <<>>, asteroids |-> <<>>, powerups |-> <<>>, projectiles |-> <<>>,
               beams |-> <<>>, poses |-> <<>>, lasers |-> <<>>, hud |-> <<>>, ufos |-> <<>>]
(* since is history: the simulated time since the beam last damaged a      *)
(* target, counted up to BEAM_HIT_INTERVAL                                  *)
NoBeam == [exists |-> FALSE, length |-> 0, max_length |-> 0, sustained |-> 0, cooldown |-> 0,
           since |-> BEAM_HIT_INTERVAL]

(* bundles.rs: ShipProjectileBundle *)
ShipProjectileBundle_new(kind, power, life, radius) ==
    [kind |-> kind, power |-> power, radius |-> radius, expiring |-> TRUE, life |-> life]

Powerup == {"Laser", "Spread", "Beam", "Plasma", "ExtraLife", "LoseLife", "Shield"}

asteroid_score(size) ==
    CASE size = Tiny -> 50
      [] size = Small -> 100
      [] size = Medium -> 150
      [] size = Large -> 200

NoHistory == [times |-> 0, awarded |-> 0, flushes |-> 0, size |-> None]
HistoryOf(h, e) == IF e \in DOMAIN h THEN h[e] ELSE NoHistory
NoDrops == [powerups |-> 0, explosions |-> 0, awarded |-> 0]
DropsOf(d, u) == IF u \in DOMAIN d THEN d[u] ELSE NoDrops
Put(f, k, v) == [x \in DOMAIN f \cup {k} |-> IF x = k THEN v ELSE f[x]]

(* main.rs ship_physics gives the beam the Line { delta: Vec2::Y * 128.0 } *)
(* and Shape::transformed rotates delta without scaling it: the Line is    *)
(* this long whatever beam.length is                                       *)
BEAM_SHAPE_LENGTH == 128

(* What a test of one projectile against one target can find: -1 for no    *)
(* intersection, otherwise the penetration depth of a plasma ball (half    *)
(* points) or the distance along the beam to the obstruction.              *)
Depths(kind) ==
    CASE kind \in {"Rapid", "Spread"} -> {-1, 0}
      [] kind = "Plasma" -> {-1, 1, MaxOverlap \div 2, MaxOverlap}
      [] kind = "Beam" -> {d \in -1..MaxBeamDistance : d <= BEAM_SHAPE_LENGTH}

RECURSIVE Outcomes(_, _)
Outcomes(P, T) ==
    IF P = {} \/ T = {} THEN {<<>>}
    ELSE LET p == CHOOSE x \in P : \A y \in P : x <= y
             rest == Outcomes(P \ {p}, T)
             row == [T -> Depths(projectiles[p].kind)]
         IN  {f @@ (p :> r) : f \in rest, r \in row}

Intersections(o) ==
    Cardinality({pt \in UNION {{<<p, t>> : t \in DOMAIN o[p]} : p \in DOMAIN o} :
                    o[pt[1]][pt[2]] >= 0})

World ==
    [asteroids |-> asteroids, ufos |-> ufos, projectiles |-> projectiles, beam |-> beam,
     score |-> score, commands |-> commands, next_entity |-> next_entity,
     hits |-> <<>>, destroyed |-> destroyed, ufo_drops |-> ufo_drops]

(* history: one resolved hit.  power and power_after are the power held by  *)
(* the ShipProjectile component when the match starts and when it ends.    *)
Hit(p, t, proj, proj_after, depth, effect, before, after, despawned) ==
    [projectile |-> p, target |-> t, kind |-> proj.kind, power |-> proj.power,
     power_after |-> proj_after.power, depth |-> depth, effect |-> effect,
     before |-> before, after |-> after, despawned |-> despawned]

(* The match on *projectile of both hit systems; target is the Asteroid or *)
(* Ufo record, hp its integrity / life.  Plasma { mut power } binds a copy *)
(* of the stored power: the component itself is not written.               *)
projectile_match(w, p, t, hp, depth) ==
    LET proj == w.projectiles[p]
    IN  CASE proj.kind \in {"Rapid", "Spread"} ->
               LET after == IF hp > 0 THEN hp - 1 ELSE hp
               IN  [w |-> [w EXCEPT !.commands.despawn = BagAdd(@, p),
                                    !.hits = Append(@, Hit(p, t, proj, proj, depth, 0, hp, after, TRUE))],
                    hp |-> after]
          [] proj.kind = "Plasma" ->
               LET overlap == depth
                   effect == Min(overlap, hp * PowerScale)
                   power == proj.power - effect
                   after == IF hp > 0 THEN hp - ceil(effect) ELSE hp
                   shrunk == [proj EXCEPT !.radius = power]
               IN  [w |-> [w EXCEPT !.projectiles[p] = shrunk,
                                    !.commands.despawn = IF power <= 0 THEN BagAdd(@, p) ELSE @,
                                    !.hits = Append(@, Hit(p, t, proj, shrunk, depth, effect, hp,
                                                           after, power <= 0))],
                    hp |-> after]
          [] proj.kind = "Beam" ->
               IF w.beam.exists
               THEN LET fire == w.beam.cooldown <= 0
                        after == IF fire THEN hp - BEAM_DAMAGE_PER_HIT ELSE hp
                    IN  [w |-> [w EXCEPT !.beam.length = depth,
                                         !.beam.cooldown = IF fire THEN BEAM_HIT_INTERVAL ELSE @,
                                         !.beam.since = IF fire THEN 0 ELSE @,
                                         !.hits = Append(@, Hit(p, t, proj, proj, depth, 0, hp, after, FALSE)
                                                            @@ [length |-> w.beam.length,
                                                                since |-> w.beam.since])],
                         hp |-> after]
               ELSE [w |-> w, hp |-> hp]

(* ship_projectile_asteroid_hit_system: the body of the inner loop *)
projectile_asteroid(w, p, a, depth) ==
    IF depth >= 0
    THEN LET r == projectile_match(w, p, a, w.asteroids[a].integrity, depth)
         IN  [r.w EXCEPT !.asteroids[a].integrity = r.hp]
    ELSE w

RECURSIVE projectile_asteroids(_, _, _, _)
projectile_asteroids(w, p, as, o) ==
    IF as = <<>> THEN w
    ELSE projectile_asteroids(projectile_asteroid(w, p, Head(as), o[p][Head(as)]),
                              p, Tail(as), o)

RECURSIVE projectiles_asteroids(_, _, _, _)
projectiles_asteroids(w, ps, as, o) ==
    IF ps = <<>> THEN w
    ELSE projectiles_asteroids(projectile_asteroids(w, Head(ps), as, o), Tail(ps), as, o)

(* ship_projectile_ufo_hit_system: the block run for a ufo with life <= 0  *)
ufo_destroyed(w, u) ==
    LET d == DropsOf(w.ufo_drops, u)
    IN  [w EXCEPT !.commands.powerups = Append(@, w.next_entity),
                  !.next_entity = @ + 1,
                  !.score = @ + 100,
                  !.commands.despawn = BagAdd(@, u),
                  !.ufo_drops = Put(@, u, [powerups |-> d.powerups + 1,
                                          explosions |-> d.explosions + 1,
                                          awarded |-> d.awarded + 100])]

projectile_ufo(w, p, u, depth) ==
    IF depth >= 0
    THEN LET r == projectile_match(w, p, u, w.ufos[u].life, depth)
         IN  [r.w EXCEPT !.ufos[u].life = r.hp]
    ELSE w

(* the inner loop over the ufos, left by break after a destruction *)
RECURSIVE projectile_ufos(_, _, _, _)
projectile_ufos(w, p, us, o) ==
    IF us = <<>> THEN w
    ELSE LET u == Head(us)
             w1 == projectile_ufo(w, p, u, o[p][u])
         IN  IF w1.ufos[u].life <= 0
             THEN ufo_destroyed(w1, u)
             ELSE projectile_ufos(w1, p, Tail(us), o)

RECURSIVE projectiles_ufos(_, _, _, _)
projectiles_ufos(w, ps, us, o) ==
    IF ps = <<>> THEN w
    ELSE projectiles_ufos(projectile_ufos(w, Head(ps), us, o), Tail(ps), us, o)

(* ---------------------------------------------------------------------- *)
(* Poses.  A position is a whole number of cells of 4 px along one axis,   *)
(* a velocity a number of cells per DeltaStep, a rotation the sign it      *)
(* gives to a vector along the axis.  NaN stands for the f32 NaN: every    *)
(* sum and product with it is NaN and every comparison with it is false.   *)
(* ---------------------------------------------------------------------- *)
Abs(x) == IF x < 0 THEN -x ELSE x
Sign(x) == IF x < 0 THEN -1 ELSE IF x > 0 THEN 1 ELSE 0

NaN == 1000
Add(a, b) == IF a = NaN \/ b = NaN THEN NaN ELSE a + b
Mul(a, b) == IF a = NaN \/ b = NaN THEN NaN ELSE a * b
length(v) == IF v = NaN THEN NaN ELSE Abs(v)

(* Vec2::normalize without a guard: of the zero vector it is NaN *)
normalize(v) == IF v = NaN \/ v = 0 THEN NaN ELSE Sign(v)

(* AsteroidSize::radius, in cells *)
radius(size) ==
    CASE size = Tiny -> 1
      [] size = Small -> 2
      [] size = Medium -> 4
      [] size = Large -> 6

(* the speed asteroid_split_system gives a fragment *)
FragmentSpeed == 1

(* bundles.rs AsteroidBundle::new: the Transform, the Moving and the       *)
(* CollisionShape of a new asteroid; its GlobalTransform is the default    *)
(* until the transforms are propagated.                                    *)
AsteroidBundle_pose(position, velocity) ==
    [translation |-> position, rotation |-> 1, velocity |-> velocity,
     global |-> 0, shape |-> position]

(* asteroid_split_system: the poses of the fragments of the asteroid e,    *)
(* none when the model does not follow the pose of e                       *)
fragment_poses(e, ids) ==
    IF e \in DOMAIN poses
    THEN LET transform == poses[e]
             direction == normalize(Mul(transform.rotation, transform.translation))
             first == CHOOSE x \in ids : \A y \in ids : x <= y
         IN  [x \in ids |-> AsteroidBundle_pose(transform.translation,
                                Mul(IF (x - first) % 2 = 0 THEN direction
                                    ELSE Mul(-1, direction), FragmentSpeed))]
    ELSE <<>>

(* asteroid_split_system with the asteroid removed at once, its fragments  *)
(* still queued                                                            *)
asteroid_split_despawns_at_once(w, e) ==
    LET asteroid == w.asteroids[e]
        h == HistoryOf(w.destroyed, e)
        size == smaller(asteroid.size)
        n == IF size = None THEN 0 ELSE asteroid_frag_count(level)
        ids == w.next_entity .. (w.next_entity + n - 1)
    IN  IF asteroid.integrity <= 0
        THEN [w EXCEPT !.score = @ + asteroid_score(asteroid.size),
                       !.asteroids = [x \in DOMAIN @ \ {e} |-> @[x]],
                       !.commands.asteroids =
                            [x \in DOMAIN @ \cup ids |->
                                IF x \in ids THEN AsteroidBundle_new(asteroid.variant, size)
                                ELSE @[x]],
                       !.commands.poses = @ @@ fragment_poses(e, ids),
                       !.next_entity = @ + n,
                       !.destroyed = Put(@, e, [h EXCEPT !.times = @ + 1,
                                                        !.awarded = @ + asteroid_score(asteroid.size),
                                                        !.size = asteroid.size])]
        ELSE w

(* asteroid_split_system with the despawn of the asteroid left out *)
asteroid_split_keeps_entity(w, e) ==
    LET asteroid == w.asteroids[e]
        h == HistoryOf(w.destroyed, e)
        size == smaller(asteroid.size)
        n == IF size = None THEN 0 ELSE asteroid_frag_count(level)
        ids == w.next_entity .. (w.next_entity + n - 1)
    IN  IF asteroid.integrity <= 0
        THEN [w EXCEPT !.score = @ + asteroid_score(asteroid.size),
                       !.commands.asteroids =
                            [x \in DOMAIN @ \cup ids |->
                                IF x \in ids THEN AsteroidBundle_new(asteroid.variant, size)
                                ELSE @[x]],
                       !.commands.poses = @ @@ fragment_poses(e, ids),
                       !.next_entity = @ + n,
                       !.destroyed = Put(@, e, [h EXCEPT !.times = @ + 1,
                                                        !.awarded = @ + asteroid_score(asteroid.size),
                                                        !.size = asteroid.size])]
        ELSE w

(* asteroid_split_system: the body of the loop *)
asteroid_split(w, e) ==
    LET asteroid == w.asteroids[e]
        h == HistoryOf(w.destroyed, e)
        size == smaller(asteroid.size)
        n == IF size = None THEN 0 ELSE asteroid_frag_count(level)
        ids == w.next_entity .. (w.next_entity + n - 1)
    IN  IF asteroid.integrity <= 0
        THEN [w EXCEPT !.score = @ + asteroid_score(asteroid.size),
                       !.commands.despawn = BagAdd(@, e),
                       !.commands.asteroids =
                            [x \in DOMAIN @ \cup ids |->
                                IF x \in ids THEN AsteroidBundle_new(asteroid.variant, size)
                                ELSE @[x]],
                       !.commands.poses = @ @@ fragment_poses(e, ids),
                       !.next_entity = @ + n,
                       !.destroyed = Put(@, e, [h EXCEPT !.times = @ + 1,
                                                        !.awarded = @ + asteroid_score(asteroid.size),
                                                        !.size = asteroid.size])]
        ELSE w

RECURSIVE asteroids_split(_, _)
asteroids_split(w, as) ==
    IF as = <<>> THEN w ELSE asteroids_split(asteroid_split(w, Head(as)), Tail(as))

(* Systems that would run on in the state they are in while another one   *)
(* has been asked for                                                      *)
Runs_while_transition_pending(system) ==
    /\ app_state = "InGame"
    /\ panicked = NoPanic
    /\ system \notin ran
    /\ ran' = ran \cup {system}
    /\ UNCHANGED <<time_delta, frame>>

(* A state asked for during a frame is entered before the next frame's     *)
(* systems run; the systems of the frame that asked for it all run.        *)
Runs(system) ==
    /\ app_state = "InGame"
    /\ panicked = NoPanic
    /\ next_state = NoState \/ ran # {}
    /\ system \notin ran
    /\ ran' = ran \cup {system}
    /\ UNCHANGED <<time_delta, frame>>

Becomes(w) ==
    /\ w.next_entity <= MaxEntities + 1
    /\ asteroids' = w.asteroids
    /\ ufos' = w.ufos
    /\ projectiles' = w.projectiles
    /\ beam' = w.beam
    /\ score' = w.score
    /\ commands' = w.commands
    /\ next_entity' = w.next_entity
    /\ hits' = w.hits
    /\ destroyed' = w.destroyed
    /\ ufo_drops' = w.ufo_drops

ship_projectile_asteroid_hit_system ==
    /\ Runs("ship_projectile_asteroid_hit_system")
    /\ \E o \in Outcomes(DOMAIN projectiles, DOMAIN asteroids) :
          /\ Intersections(o) <= MaxHits
          /\ Becomes(projectiles_asteroids(World, iter(DOMAIN projectiles),
                                        iter(DOMAIN asteroids), o))
    /\ UNCHANGED <<level, poses, otherVars, allocVars, stateVars, ship, powerups>>

ship_projectile_ufo_hit_system ==
    /\ Runs("ship_projectile_ufo_hit_system")
    /\ \E o \in Outcomes(DOMAIN projectiles, DOMAIN ufos) :
          /\ Intersections(o) <= MaxHits
          /\ Becomes(projectiles_ufos(World, iter(DOMAIN projectiles), iter(DOMAIN ufos), o))
    /\ UNCHANGED <<level, poses, otherVars, allocVars, stateVars, ship, powerups>>

asteroid_split_system ==
    /\ Runs("asteroid_split_system")
    /\ Becomes([asteroids_split(World, iter(DOMAIN asteroids)) EXCEPT !.hits = hits])
    /\ UNCHANGED <<level, poses, otherVars, allocVars, stateVars, ship, powerups>>

(* resources.rs Level::increment, and an increment that wraps as the       *)
(* asteroid budget does                                                    *)
Level_increment_wrapped(l) == (l + 1) % 20

Level_increment(l) == l + 1

level_finished_system ==
    /\ Runs("level_finished_system")
    /\ IF DOMAIN asteroids = {}
       THEN /\ level' = Level_increment(level)
            /\ next_state' = "LoadLevel"
       ELSE UNCHANGED <<level, next_state>>
    /\ UNCHANGED <<poses, otherVars, allocVars, app_state, level_start_delay_timer, worldVars,
                   combatVars>>

(* expiring_system: the entities that carry Expiring are the ship's shots  *)
(* and the powerups                                                        *)
expiring_system ==
    /\ Runs("expiring_system")
    /\ projectiles' = [e \in DOMAIN projectiles |->
                          IF projectiles[e].expiring
                          THEN [projectiles[e] EXCEPT !.life = @ - time_delta]
                          ELSE projectiles[e]]
    /\ powerups' = [e \in DOMAIN powerups |-> [powerups[e] EXCEPT !.life = @ - time_delta]]
    /\ LET expired == {e \in DOMAIN projectiles : projectiles'[e].expiring /\ projectiles'[e].life < 0}
                        \cup {e \in DOMAIN powerups : powerups'[e].life < 0}
           RECURSIVE add(_, _)
           add(b, es) == IF es = <<>> THEN b ELSE add(BagAdd(b, Head(es)), Tail(es))
       IN  commands' = [commands EXCEPT !.despawn = add(@, iter(expired))]
    /\ UNCHANGED <<level, poses, otherVars, allocVars, stateVars, worldVars, score, ufos, beam, hits,
                   destroyed, ufo_drops>>

(* ---------------------------------------------------------------------- *)
(* components.rs: Ship; main.rs and plugins/ufo.rs: the ship's systems.    *)
(* Positions are kept along the line through the two centres of a          *)
(* collision: diff is ship position - obstacle position on that line,      *)
(* velocities are their components along it.                                *)
(* ---------------------------------------------------------------------- *)
SHIP_RESPAWN_DELAY == 32
SHIP_INVULNERABILITY == 32
BEAM_BASE_LENGTH == 4
BEAM_LENGTH_PER_LEVEL == 2
BEAM_EXTEND_TIME == 32
BEAM_RETRACT_RATE == 20
BEAM_RECHARGE_RATE == 20

(* u8 arithmetic *)
wrapping_sub(a, b) == (a - b) % 256
saturating_sub(a, b) == IF a >= b THEN a - b ELSE 0
u8_sub(a, b) == (a - b) % 256
u8_add(a, b) == (a + b) % 256

(* utils.rs lerp, position = num / den *)
lerp(start, end, num, den) == start + ((end - start) * Max(0, Min(num, den))) \div den

(* f32 seconds * rate *)
Scaled(dt, rate) == (dt * rate) \div TimeScale

Ship_new(weapon, beam_level, shield_level, lives) ==
    [exists |-> TRUE, fire |-> FALSE, weapon |-> weapon,
     weapon_rapid_level |-> 1, weapon_spread_level |-> 0,
     weapon_beam_level |-> beam_level, weapon_plasma_level |-> 0,
     weapon_cooldown |-> 0, shield_level |-> shield_level, lives |-> lives,
     invulnerability |-> 0, respawn_delay |-> 0, velocity |-> 0, velocity_nan |-> FALSE,
     \* history: the cooldown the last shot set, and the time since that shot
     fired_cooldown |-> 0, since_fire |-> 0]

Ship_die(s) ==
    [s EXCEPT !.lives = saturating_sub(@, 1),
              !.respawn_delay = SHIP_RESPAWN_DELAY,
              !.invulnerability = SHIP_RESPAWN_DELAY,
              !.weapon_rapid_level = Max(saturating_sub(@, 1), 1),
              !.weapon_spread_level = saturating_sub(@, 1),
              !.weapon_beam_level = saturating_sub(@, 1),
              !.weapon_plasma_level = saturating_sub(@, 1),
              !.shield_level = 0]

(* history: one thing that happened to the ship *)
ShipEvent(kind, before, after, contact) ==
    [kind |-> kind, before |-> before, after |-> after, contact |-> contact]

ShipBecomes(s, events) ==
    /\ ship' = s
    /\ hits' = events

ship_respawn_system ==
    /\ Runs("ship_respawn_system")
    /\ ship.exists
    /\ LET delay == ship.respawn_delay - time_delta
       IN  ShipBecomes(IF ship.respawn_delay > 0
                       THEN IF delay > 0
                            THEN [ship EXCEPT !.respawn_delay = delay,
                                              !.invulnerability = 100 * TimeScale]
                            ELSE [ship EXCEPT !.respawn_delay = delay,
                                              !.invulnerability = SHIP_INVULNERABILITY,
                                              !.velocity = 0,
                                              !.velocity_nan = FALSE]
                       ELSE ship, <<>>)
    /\ UNCHANGED <<level, poses, otherVars, allocVars, stateVars, asteroids, next_entity, score, ufos, projectiles,
                   powerups, beam, commands, destroyed, ufo_drops>>

Keys == {"none", "Key1", "Key2", "Key3", "Key4"}

ship_control(s, fire, key) ==
    IF s.respawn_delay > 0
    THEN [s EXCEPT !.fire = FALSE]
    ELSE [s EXCEPT !.fire = fire,
                   !.weapon = CASE key = "Key1" -> "Rapid"
                                [] key = "Key2" -> "Spread"
                                [] key = "Key3" -> "Beam"
                                [] key = "Key4" -> "Plasma"
                                [] OTHER -> @]

(* ship_control_system, the pilot pressing fire and one of the keys given *)
ship_controlled(keys) ==
    /\ Runs("ship_control_system")
    /\ ship.exists
    /\ \E fire \in BOOLEAN, key \in keys :
          ShipBecomes(ship_control(ship, fire, key), <<>>)
    /\ UNCHANGED <<level, poses, otherVars, allocVars, stateVars, asteroids, next_entity, score, ufos, projectiles,
                   powerups, beam, commands, destroyed, ufo_drops>>

(* the keys pressed in the ship model: fire, and the beam's selector *)
ship_control_system == ship_controlled({"none", "Key3"})

Beam_limit(s) == BEAM_BASE_LENGTH + BEAM_LENGTH_PER_LEVEL * s.weapon_beam_level

Spawned(first, bundles) == [e \in first .. (first + Len(bundles) - 1) |-> bundles[e - first + 1]]

(* ship_fires with a Rapid cooldown that runs out below level 8 *)
ship_fires_rapid_runs_out(s) ==
    CASE s.weapon = "Rapid" ->
            [shots |-> [i \in 1..2 |-> ShipProjectileBundle_new("Rapid", 0, TimeScale \div 4,
                                                                1 * PowerScale)],
             cooldown |-> lerp((3 * TimeScale) \div 10, -(TimeScale \div 20),
                               u8_sub(s.weapon_rapid_level, 1), 8)]
      [] s.weapon = "Spread" ->
            [shots |-> [i \in 1..(2 * s.weapon_spread_level + 1) |->
                           ShipProjectileBundle_new("Spread", 0, TimeScale \div 5, 1 * PowerScale)],
             cooldown |-> lerp((8 * TimeScale) \div 10, (3 * TimeScale) \div 10,
                               u8_sub(s.weapon_spread_level, 1), 8)]
      [] s.weapon = "Plasma" ->
            LET power == lerp(4 * PowerScale, 20 * PowerScale, u8_sub(s.weapon_plasma_level, 1), 8)
            IN  [shots |-> <<ShipProjectileBundle_new("Plasma", power, TimeScale \div 2, power)>>,
                 cooldown |-> lerp((12 * TimeScale) \div 10, (8 * TimeScale) \div 10,
                                   u8_sub(s.weapon_plasma_level, 1), 8)]

(* ship_physics: what the fire branch spawns and the cooldown it sets *)
ship_fires(s) ==
    CASE s.weapon = "Rapid" ->
            [shots |-> [i \in 1..2 |-> ShipProjectileBundle_new("Rapid", 0, TimeScale \div 4,
                                                                1 * PowerScale)],
             cooldown |-> lerp((3 * TimeScale) \div 10, TimeScale \div 20,
                               u8_sub(s.weapon_rapid_level, 1), 8)]
      [] s.weapon = "Spread" ->
            [shots |-> [i \in 1..(2 * s.weapon_spread_level + 1) |->
                           ShipProjectileBundle_new("Spread", 0, TimeScale \div 5, 1 * PowerScale)],
             cooldown |-> lerp((8 * TimeScale) \div 10, (3 * TimeScale) \div 10,
                               u8_sub(s.weapon_spread_level, 1), 8)]
      [] s.weapon = "Plasma" ->
            LET power == lerp(4 * PowerScale, 20 * PowerScale, u8_sub(s.weapon_plasma_level, 1), 8)
            IN  [shots |-> <<ShipProjectileBundle_new("Plasma", power, TimeScale \div 2, power)>>,
                 cooldown |-> lerp((12 * TimeScale) \div 10, (8 * TimeScale) \div 10,
                                   u8_sub(s.weapon_plasma_level, 1), 8)]

(* ship_physics: the beam while the ship fires it *)
beam_fired(b, dt) ==
    LET sustained == b.sustained + dt
        max_length == IF sustained > BEAM_EXTEND_TIME
                      THEN Max(b.max_length - Scaled(dt, BEAM_RETRACT_RATE), 0)
                      ELSE b.max_length
    IN  IF b.cooldown <= 0
        THEN [b EXCEPT !.sustained = sustained, !.max_length = max_length,
                       !.length = Min(max_length, b.length + (max_length * dt) \div BEAM_EXTEND_TIME)]
        ELSE [b EXCEPT !.sustained = sustained, !.max_length = max_length,
                       !.cooldown = @ - dt]

(* ship_physics: the beam while the Beam is selected and not fired *)
beam_idle(b, s, dt) ==
    IF b.length > 0
    THEN [b EXCEPT !.length = Max(@ - Scaled(dt, 1024), 0)]
    ELSE [b EXCEPT !.sustained = 0,
                   !.max_length = Min(@ + Scaled(dt, BEAM_RECHARGE_RATE), Beam_limit(s))]

ship_physics ==
    /\ Runs("ship_physics")
    /\ ship.exists
    /\ LET s == [ship EXCEPT !.invulnerability = Max(@ - time_delta, 0),
                             !.weapon_cooldown = IF @ > 0 THEN @ - time_delta ELSE @,
                             !.since_fire = Min(@ + time_delta, ship.fired_cooldown)]
       IN  IF s.fire /\ s.weapon_cooldown <= 0
           THEN IF s.weapon = "Beam"
                THEN /\ ship' = s
                     /\ IF ~beam.exists
                        THEN /\ next_entity <= MaxEntities
                             /\ commands' = [commands EXCEPT !.beams =
                                   @ @@ (next_entity :>
                                           [exists |-> TRUE, length |-> 0,
                                            max_length |-> Beam_limit(s),
                                            sustained |-> 0, cooldown |-> 0,
                                            since |-> BEAM_HIT_INTERVAL])]
                             /\ next_entity' = next_entity + 1
                             /\ UNCHANGED beam
                        ELSE /\ beam' = beam_fired(beam, time_delta)
                             /\ UNCHANGED <<commands, next_entity>>
                ELSE LET f == ship_fires(s)
                     IN  /\ next_entity + Len(f.shots) <= MaxEntities + 1
                         /\ ship' = [s EXCEPT !.weapon_cooldown = f.cooldown,
                                               !.fired_cooldown = f.cooldown,
                                               !.since_fire = 0]
                         /\ commands' = [commands EXCEPT !.projectiles =
                                            @ @@ Spawned(next_entity, f.shots)]
                         /\ next_entity' = next_entity + Len(f.shots)
                         /\ UNCHANGED beam
           ELSE /\ ship' = s
                /\ beam' = IF s.weapon = "Beam" /\ beam.exists
                           THEN beam_idle(beam, s, time_delta)
                           ELSE beam
                /\ UNCHANGED <<commands, next_entity>>
    /\ hits' = <<>>
    /\ UNCHANGED <<level, poses, otherVars, allocVars, stateVars, asteroids, score, ufos, projectiles, powerups,
                   destroyed, ufo_drops>>

(* the match on the powerup picked up, without the cap of the levels *)
ship_picks_up_uncapped(s, powerup) ==
    CASE powerup = "Laser" -> [s EXCEPT !.weapon_rapid_level = u8_add(@, 1)]
      [] powerup = "Spread" -> [s EXCEPT !.weapon_spread_level = u8_add(@, 1)]
      [] powerup = "Beam" -> [s EXCEPT !.weapon_beam_level = u8_add(@, 1)]
      [] powerup = "Plasma" -> [s EXCEPT !.weapon_plasma_level = u8_add(@, 1)]
      [] powerup = "ExtraLife" -> [s EXCEPT !.lives = u8_add(@, 1)]
      [] powerup = "LoseLife" -> [s EXCEPT !.lives = u8_sub(Max(@, 1), 1)]
      [] powerup = "Shield" -> [s EXCEPT !.shield_level = u8_add(@, 1)]

(* ship_powerup_collision_system: the match on the powerup picked up *)
ship_picks_up(s, powerup) ==
    CASE powerup = "Laser" -> [s EXCEPT !.weapon_rapid_level = Min(u8_add(@, 1), 8)]
      [] powerup = "Spread" -> [s EXCEPT !.weapon_spread_level = Min(u8_add(@, 1), 8)]
      [] powerup = "Beam" -> [s EXCEPT !.weapon_beam_level = Min(u8_add(@, 1), 8)]
      [] powerup = "Plasma" -> [s EXCEPT !.weapon_plasma_level = Min(u8_add(@, 1), 8)]
      [] powerup = "ExtraLife" -> [s EXCEPT !.lives = u8_add(@, 1)]
      [] powerup = "LoseLife" -> [s EXCEPT !.lives = u8_sub(Max(@, 1), 1)]
      [] powerup = "Shield" -> [s EXCEPT !.shield_level = u8_add(@, 1)]

RECURSIVE ship_powerups(_, _, _)
ship_powerups(r, es, touched) ==
    IF es = <<>> THEN r
    ELSE LET e == Head(es)
             after == ship_picks_up(r.ship, powerups[e].kind)
         IN  ship_powerups(IF e \in touched
                           THEN [ship |-> after,
                                 despawn |-> BagAdd(r.despawn, e),
                                 events |-> Append(r.events,
                                              ShipEvent(powerups[e].kind, r.ship, after, e))]
                           ELSE r,
                           Tail(es), touched)

ship_powerup_collision_system ==
    /\ Runs("ship_powerup_collision_system")
    /\ ship.exists
    /\ \E touched \in SUBSET DOMAIN powerups :
          LET r == ship_powerups([ship |-> ship, despawn |-> commands.despawn, events |-> <<>>],
                                 iter(DOMAIN powerups), touched)
          IN  /\ ShipBecomes(r.ship, r.events)
              /\ commands' = [commands EXCEPT !.despawn = r.despawn]
    /\ UNCHANGED <<level, poses, otherVars, allocVars, stateVars, asteroids, next_entity, score, ufos, projectiles,
                   powerups, beam, destroyed, ufo_drops>>

(* An intersection test of the ship against one obstacle: whether the      *)
(* shapes intersect, where the ship is relative to the obstacle and how    *)
(* fast the obstacle moves.                                                *)
NoContact == [touching |-> FALSE, diff |-> 0, velocity |-> 0]
Contacts ==
    {NoContact} \cup [touching : {TRUE}, diff : {-1, 0, 1}, velocity : {-MaxSpeed, MaxSpeed}]

(* ship_asteroid_collision_system with the shield test left out *)
ship_hits_asteroid_unshielded(s, c) ==
    [s EXCEPT !.respawn_delay = SHIP_RESPAWN_DELAY,
              !.lives = u8_sub(Max(@, 1), 1)]

(* ship_asteroid_collision_system: the body of the intersects branch.     *)
(* Vec2::normalize of a zero diff, and any product with a NaN, is NaN.     *)
ship_hits_asteroid(s, c) ==
    IF s.shield_level > 0
    THEN LET speed == Abs(c.velocity - s.velocity)
         IN  [s EXCEPT !.shield_level = u8_sub(@, 1),
                       !.velocity = IF c.diff = 0 \/ s.velocity_nan THEN 0
                                    ELSE Sign(c.diff) * speed,
                       !.velocity_nan = c.diff = 0 \/ s.velocity_nan]
    ELSE [s EXCEPT !.respawn_delay = SHIP_RESPAWN_DELAY,
                   !.lives = u8_sub(Max(@, 1), 1)]

RECURSIVE ship_asteroids(_, _, _)
ship_asteroids(r, es, contacts) ==
    IF es = <<>> THEN r
    ELSE LET c == contacts[Head(es)]
             after == ship_hits_asteroid(r.ship, c)
         IN  ship_asteroids(IF c.touching
                            THEN [ship |-> after,
                                  events |-> Append(r.events,
                                               ShipEvent("asteroid", r.ship, after, c))]
                            ELSE r,
                            Tail(es), contacts)

ship_asteroid_collision_system ==
    /\ Runs("ship_asteroid_collision_system")
    /\ ship.exists
    /\ IF ship.invulnerability > 0
       THEN ShipBecomes(ship, <<>>)
       ELSE \E contacts \in [DOMAIN asteroids -> Contacts] :
               LET r == ship_asteroids([ship |-> ship, events |-> <<>>],
                                       iter(DOMAIN asteroids), contacts)
               IN  ShipBecomes(r.ship, r.events)
    /\ UNCHANGED <<level, poses, otherVars, allocVars, stateVars, asteroids, next_entity, score, ufos, projectiles,
                   powerups, beam, commands, destroyed, ufo_drops>>

(* plugins/ufo.rs ship_ufo_collision_system: the loop over the ufos *)
RECURSIVE ship_ufos(_, _, _)
ship_ufos(r, es, touched) ==
    IF es = <<>> THEN r
    ELSE LET e == Head(es)
         IN  ship_ufos(IF r.ufos[e].life > 0 /\ e \in touched
                       THEN IF r.ship.shield_level > 0
                            THEN [r EXCEPT !.ship.shield_level = u8_sub(@, 1),
                                           !.ufos[e].life = 0]
                            ELSE [r EXCEPT !.ship = Ship_die(@),
                                           !.events = Append(@, ShipEvent("die", r.ship,
                                                                          Ship_die(r.ship), e))]
                       ELSE r,
                       Tail(es), touched)

ship_ufo_collision_system ==
    /\ Runs("ship_ufo_collision_system")
    /\ IF ~ship.exists \/ ship.invulnerability > 0
       THEN /\ ShipBecomes(ship, <<>>)
            /\ UNCHANGED ufos
       ELSE \E touched \in SUBSET DOMAIN ufos :
               LET r == ship_ufos([ship |-> ship, ufos |-> ufos, events |-> <<>>],
                                  iter(DOMAIN ufos), touched)
               IN  /\ ShipBecomes(r.ship, r.events)
                   /\ ufos' = r.ufos
    /\ UNCHANGED <<level, poses, otherVars, allocVars, stateVars, asteroids, next_entity, score, projectiles,
                   powerups, beam, commands, destroyed, ufo_drops>>

(* main.rs ship_ufo_laser_collision_system: the loop over the lasers; the  *)
(* body of its distance test is that of the asteroids' intersects branch   *)
RECURSIVE ship_lasers(_, _, _)
ship_lasers(r, es, contacts) ==
    IF es = <<>> THEN r
    ELSE LET c == contacts[Head(es)]
             after == ship_hits_asteroid(r.ship, c)
         IN  ship_lasers(IF c.touching
                         THEN [ship |-> after,
                               events |-> Append(r.events,
                                            ShipEvent("laser", r.ship, after, c))]
                         ELSE r,
                         Tail(es), contacts)

(* the system without its test of the invulnerability *)
ship_ufo_laser_collision_system_unguarded ==
    /\ Runs("ship_ufo_laser_collision_system")
    /\ ship.exists
    /\ \E contacts \in [DOMAIN lasers -> Contacts] :
          LET r == ship_lasers([ship |-> ship, events |-> <<>>],
                               iter(DOMAIN lasers), contacts)
          IN  ShipBecomes(r.ship, r.events)
    /\ UNCHANGED <<level, poses, otherVars, allocVars, stateVars, asteroids, next_entity, score, ufos, projectiles,
                   powerups, beam, commands, destroyed, ufo_drops>>

ship_ufo_laser_collision_system ==
    /\ Runs("ship_ufo_laser_collision_system")
    /\ ship.exists
    /\ IF ship.invulnerability > 0
       THEN ShipBecomes(ship, <<>>)
       ELSE \E contacts \in [DOMAIN lasers -> Contacts] :
               LET r == ship_lasers([ship |-> ship, events |-> <<>>],
                                    iter(DOMAIN lasers), contacts)
               IN  ShipBecomes(r.ship, r.events)
    /\ UNCHANGED <<level, poses, otherVars, allocVars, stateVars, asteroids, next_entity, score, ufos, projectiles,
                   powerups, beam, commands, destroyed, ufo_drops>>

(* ---------------------------------------------------------------------- *)
(* main.rs: motion, the refresh of the collision shapes and the collisions *)
(* of the asteroids with each other                                        *)
(* ---------------------------------------------------------------------- *)
moving_system ==
    /\ Runs("moving_system")
    /\ poses' = [e \in DOMAIN poses |->
                    [poses[e] EXCEPT !.translation =
                        Add(@, Mul(poses[e].velocity, time_delta \div DeltaStep))]]
    /\ UNCHANGED <<level, otherVars, allocVars, stateVars, worldVars, combatVars>>

(* spinning_system: the angle turned depends on the spin drawn at spawn *)
spinning_system ==
    /\ Runs("spinning_system")
    /\ \E turned \in SUBSET DOMAIN poses :
          poses' = [e \in DOMAIN poses |->
                       [poses[e] EXCEPT !.rotation = IF e \in turned THEN -@ ELSE @]]
    /\ UNCHANGED <<level, otherVars, allocVars, stateVars, worldVars, combatVars>>

(* wrapping_system: one axis; no comparison with a NaN is true *)
wrap(x) ==
    IF x = NaN THEN x
    ELSE IF x > MaxCoord THEN x - 2 * MaxCoord
    ELSE IF x < -MaxCoord THEN x + 2 * MaxCoord
    ELSE x

wrapping_system ==
    /\ Runs("wrapping_system")
    /\ poses' = [e \in DOMAIN poses |-> [poses[e] EXCEPT !.translation = wrap(@)]]
    /\ UNCHANGED <<level, otherVars, allocVars, stateVars, worldVars, combatVars>>

collision_shape_system ==
    /\ Runs("collision_shape_system")
    /\ poses' = [e \in DOMAIN poses |-> [poses[e] EXCEPT !.shape = poses[e].global]]
    /\ UNCHANGED <<level, otherVars, allocVars, stateVars, worldVars, combatVars>>

(* Shape::intersects of two circles, centred where the shapes' transforms  *)
(* put them                                                                *)
intersects(a, a_size, b, b_size) ==
    /\ a # NaN
    /\ b # NaN
    /\ Abs(a - b) <= radius(a_size) + radius(b_size)

(* iter_combinations_mut: the pairs in the order of the entities *)
combinations(es) ==
    LET RECURSIVE from(_, _)
        from(i, j) ==
            IF i >= Len(es) THEN <<>>
            ELSE IF j > Len(es) THEN from(i + 1, i + 2)
            ELSE <<(<<es[i], es[j]>>)>> \o from(i, j + 1)
    IN  from(1, 2)

(* history: one intersection test of asteroid_hit_system *)
ShapeTest(a, b, ps, touching, direction) ==
    [kind |-> "test", a |-> a, b |-> b, ran |-> ran,
     a_shape |-> ps[a].shape, a_translation |-> ps[a].translation,
     b_shape |-> ps[b].shape, b_translation |-> ps[b].translation,
     touching |-> touching, direction |-> direction]

(* asteroid_hit_system: the body of the loop *)
asteroid_hit(r, pair) ==
    LET a == pair[1]
        b == pair[2]
        touching == intersects(r.poses[a].shape, asteroids[a].size,
                               r.poses[b].shape, asteroids[b].size)
        direction == normalize(Add(r.poses[a].translation, Mul(-1, r.poses[b].translation)))
    IN  IF touching
        THEN [poses |-> [r.poses EXCEPT
                            ![a].velocity = Mul(direction, length(r.poses[a].velocity)),
                            ![b].velocity = Mul(Mul(-1, direction), length(r.poses[b].velocity))],
              tests |-> Append(r.tests, ShapeTest(a, b, r.poses, TRUE, direction))]
        ELSE [r EXCEPT !.tests = Append(@, ShapeTest(a, b, r.poses, FALSE, 0))]

RECURSIVE asteroids_hit(_, _)
asteroids_hit(r, pairs) ==
    IF pairs = <<>> THEN r ELSE asteroids_hit(asteroid_hit(r, Head(pairs)), Tail(pairs))

asteroid_hit_system ==
    /\ Runs("asteroid_hit_system")
    /\ LET r == asteroids_hit([poses |-> poses, tests |-> <<>>],
                              combinations(iter(DOMAIN asteroids \cap DOMAIN poses)))
       IN  /\ poses' = r.poses
           /\ hits' = r.tests
    /\ UNCHANGED <<level, otherVars, allocVars, stateVars, worldVars, score, ufos, projectiles, powerups,
                   beam, commands, destroyed, ufo_drops>>

Keep(f, gone) == [e \in DOMAIN f \ gone |-> f[e]]

(* PostUpdate: bevy's transform propagation copies every Transform into    *)
(* its GlobalTransform                                                     *)
propagate_transforms(ps) == [e \in DOMAIN ps |-> [ps[e] EXCEPT !.global = ps[e].translation]]

(* The end of the frame: the queued Commands are applied and the next      *)
(* frame's delta is read.                                                  *)
update_flush(systems, frames) ==
    /\ app_state = "InGame"
    /\ panicked = NoPanic
    /\ ran = systems
    /\ frame < frames
    /\ frame' = frame + 1
    /\ LET gone == DOMAIN commands.despawn
           left == Keep(asteroids, gone)
       IN  /\ asteroids' = left @@ commands.asteroids
           /\ ufos' = Keep(ufos, gone) @@ commands.ufos
           /\ projectiles' = Keep(projectiles, gone) @@ commands.projectiles @@
                             [e \in DOMAIN commands.beams |->
                                 [kind |-> "Beam", power |-> 20 * PowerScale, radius |-> 0,
                                  expiring |-> FALSE, life |-> 0]]
           /\ \E kinds \in [{commands.powerups[i] : i \in DOMAIN commands.powerups} -> Powerup] :
                 powerups' = Keep(powerups, gone) @@
                             [e \in DOMAIN kinds |-> [kind |-> kinds[e], life |-> 5 * TimeScale]]
           /\ destroyed' = [e \in DOMAIN destroyed \cup {x \in DOMAIN left : left[x].integrity <= 0} |->
                               IF e \in DOMAIN left /\ left[e].integrity <= 0
                               THEN [HistoryOf(destroyed, e) EXCEPT !.flushes = @ + 1]
                               ELSE destroyed[e]]
    /\ poses' = propagate_transforms(Keep(poses, DOMAIN commands.despawn) @@ commands.poses)
    /\ commands' = NoCommands
    /\ hits' = <<>>
    /\ ran' = {}
    /\ time_delta' \in Deltas
    /\ beam' = [(IF commands.beams = <<>> THEN beam
                 ELSE commands.beams[CHOOSE e \in DOMAIN commands.beams : TRUE])
                   EXCEPT !.since = Min(@ + time_delta', BEAM_HIT_INTERVAL)]
    /\ lasers' = Keep(lasers, DOMAIN commands.despawn) @@ commands.lasers
    /\ hud' = IF commands.hud = <<>> THEN hud ELSE commands.hud[Len(commands.hud)]
    /\ UNCHANGED <<level, allocVars, stateVars, next_entity, ship, score, ufo_drops, shield,
                   panicked, next_ufo_score, geometry, weapon_cycle, high_score>>

(* ---------------------------------------------------------------------- *)
(* Systems that read the ship: the UFO's gun, the HUD, the shield sprite   *)
(* ---------------------------------------------------------------------- *)
UFO_SHOOT_DELAY == 2 * TimeScale
UFO_LASER_LIFE == 2 * TimeScale

(* Query::single() on the ship: a panic unless exactly one Ship exists *)
single_ship_panics == ~ship.exists

(* ufo_shoot_system: the loop over the ufos; r = the ufos, the lasers      *)
(* queued and the next entity id                                           *)
RECURSIVE ufo_shoot(_, _, _)
ufo_shoot(r, es, dt) ==
    IF es = <<>> THEN r
    ELSE LET e == Head(es)
             delay == r.ufos[e].shoot_delay - dt
         IN  ufo_shoot(IF delay <= 0
                       THEN [r EXCEPT !.ufos[e].shoot_delay = UFO_SHOOT_DELAY,
                                      !.lasers = @ @@ (r.next_entity :> [life |-> UFO_LASER_LIFE]),
                                      !.next_entity = @ + 1]
                       ELSE [r EXCEPT !.ufos[e].shoot_delay = delay],
                       Tail(es), dt)

ufo_shoot_system ==
    /\ Runs("ufo_shoot_system")
    /\ IF single_ship_panics
       THEN /\ panicked' = "ufo_shoot_system"
            /\ UNCHANGED <<ufos, commands, next_entity>>
       ELSE LET r == ufo_shoot([ufos |-> ufos, lasers |-> <<>>, next_entity |-> next_entity],
                               iter(DOMAIN ufos), time_delta)
            IN  /\ r.next_entity <= MaxEntities + 1
                /\ ufos' = r.ufos
                /\ commands' = [commands EXCEPT !.lasers = @ @@ r.lasers]
                /\ next_entity' = r.next_entity
                /\ UNCHANGED panicked
    /\ UNCHANGED <<level, next_ufo_score, geometry, weapon_cycle, high_score, poses, lasers, hud, shield, allocVars, stateVars, asteroids, ship, score,
                   projectiles, powerups, beam, hits, destroyed, ufo_drops>>

HUD_of(s, changed) ==
    [exists |-> TRUE, level |-> level, score |-> score, lives |-> s.lives, weapon |-> s.weapon,
     weapon_rapid_level |-> s.weapon_rapid_level, weapon_spread_level |-> s.weapon_spread_level,
     weapon_beam_level |-> s.weapon_beam_level, weapon_plasma_level |-> s.weapon_plasma_level,
     changed |-> changed]

update_hud_system ==
    /\ Runs("update_hud_system")
    /\ IF single_ship_panics
       THEN /\ panicked' = "update_hud_system"
            /\ UNCHANGED <<hud, commands>>
       ELSE /\ IF ~hud.exists
               THEN /\ commands' = [commands EXCEPT !.hud = Append(@, HUD_of(ship, TRUE))]
                    /\ UNCHANGED hud
               ELSE /\ hud' = IF hud # HUD_of(ship, FALSE) THEN HUD_of(ship, TRUE) ELSE hud
                    /\ UNCHANGED commands
            /\ UNCHANGED panicked
    /\ UNCHANGED <<level, next_ufo_score, geometry, weapon_cycle, high_score, poses, lasers, shield, allocVars, stateVars, worldVars, score, ufos,
                   projectiles, powerups, beam, hits, destroyed, ufo_drops>>

(* runs .after(update_hud_system); the HUD entity is replaced by a new one *)
update_hud_text_system ==
    /\ Runs("update_hud_text_system")
    /\ "update_hud_system" \in ran
    /\ commands' = IF hud.exists /\ hud.changed
                   THEN [commands EXCEPT !.hud = Append(@, [hud EXCEPT !.changed = FALSE])]
                   ELSE commands
    /\ UNCHANGED <<level, poses, otherVars, allocVars, stateVars, worldVars, score, ufos,
                   projectiles, powerups, beam, hits, destroyed, ufo_drops>>

(* shield_sprite: the loop over the ShipShield entities, whose parent is   *)
(* the ship                                                                *)
shield_sprite ==
    /\ Runs("shield_sprite")
    /\ IF ~shield.exists
       THEN UNCHANGED <<shield, panicked>>
       ELSE IF ~ship.exists
            THEN /\ panicked' = "shield_sprite"
                 /\ UNCHANGED shield
            ELSE /\ shield' = [shield EXCEPT !.visible = ship.shield_level > 0]
                 /\ UNCHANGED panicked
    /\ UNCHANGED <<level, next_ufo_score, geometry, weapon_cycle, high_score, poses, lasers, hud, allocVars, stateVars, worldVars, combatVars>>

(* ---------------------------------------------------------------------- *)
(* main.rs: ufo_spawn_system                                               *)
(* ---------------------------------------------------------------------- *)
UFO_LIFE == 20

ufo_spawn_system ==
    /\ Runs("ufo_spawn_system")
    /\ IF score >= next_ufo_score
       THEN /\ \E interval \in random_ufo_interval :
                  next_ufo_score' = next_ufo_score + interval
            /\ commands' = [commands EXCEPT !.ufos = @ @@ (next_entity :> [life |-> UFO_LIFE])]
            /\ next_entity' = next_entity + 1
       ELSE UNCHANGED <<next_ufo_score, commands, next_entity>>
    /\ UNCHANGED <<level, geometry, weapon_cycle, high_score, poses, lasers, hud, shield, panicked, allocVars, stateVars,
                   asteroids, ship, score, ufos, projectiles, powerups, beam, hits, destroyed,
                   ufo_drops>>

(* ---------------------------------------------------------------------- *)
(* plugins/ufo.rs: the next UFO score.  A draw of random::<f32>() is       *)
(* draw / Draws, and an f32 is counted in units of 1 / Draws.              *)
(* ---------------------------------------------------------------------- *)
Draws == MaxDraw + 1
MIN_UFO_SCORE_INTERVAL == UFO_SCORE_INTERVAL_MIN
MAX_UFO_SCORE_INTERVAL == UFO_SCORE_INTERVAL_MAX

(* lerp(rand::random::<f32>(), MIN_UFO_SCORE_INTERVAL, MAX_UFO_SCORE_INTERVAL) *)
(* as u32: the draw is lerp's start, MIN its end and MAX its position          *)
ufo_random_ufo_interval(draw) ==
    lerp(draw, MIN_UFO_SCORE_INTERVAL * Draws, MAX_UFO_SCORE_INTERVAL, 1) \div Draws

(* history: one call of random_ufo_interval *)
IntervalDrawn(draw, interval) == [kind |-> "interval", draw |-> draw, interval |-> interval]

(* OnEnter(AppState::NewGame): NextUfoScore::new(); the states between      *)
(* NewGame and InGame are not followed                                      *)
reset_next_ufo_score ==
    /\ app_state = "NewGame"
    /\ \E draw \in 0..MaxDraw :
          /\ next_ufo_score' = ufo_random_ufo_interval(draw)
          /\ hits' = <<IntervalDrawn(draw, ufo_random_ufo_interval(draw))>>
    /\ app_state' = "InGame"
    /\ UNCHANGED <<level, geometry, weapon_cycle, high_score, poses, lasers, hud, shield, panicked, allocVars, next_state,
                   level_start_delay_timer, asteroids, ship, next_entity, score, ufos,
                   projectiles, powerups, beam, commands, destroyed, ufo_drops, frameVars>>

(* plugins/ufo.rs ufo_spawn_system, with NextUfoScore::bump *)
ufo_plugin_spawn_system ==
    /\ Runs("ufo_spawn_system")
    /\ IF score >= next_ufo_score
       THEN /\ \E draw \in 0..MaxDraw :
                  /\ next_ufo_score' = score + ufo_random_ufo_interval(draw)
                  /\ hits' = <<IntervalDrawn(draw, ufo_random_ufo_interval(draw))>>
            /\ commands' = [commands EXCEPT !.ufos = @ @@ (next_entity :> [life |-> UFO_LIFE])]
            /\ next_entity' = next_entity + 1
       ELSE /\ hits' = <<>>
            /\ UNCHANGED <<next_ufo_score, commands, next_entity>>
    /\ UNCHANGED <<level, geometry, weapon_cycle, high_score, poses, lasers, hud, shield, panicked, allocVars, stateVars,
                   asteroids, ship, score, ufos, projectiles, powerups, beam, destroyed,
                   ufo_drops>>

(* ---------------------------------------------------------------------- *)
(* components.rs: Shape.  Lengths are f32 values counted in units of       *)
(* 2^-22 px (SubPixel per pixel), on one axis; an f32 keeps 24 significant *)
(* bits and rounds to nearest, ties to even.                               *)
(* ---------------------------------------------------------------------- *)
SubPixel == 4194304
Mantissa == 16777216

(* the power of two whose multiples are the f32 values of magnitude m *)
RECURSIVE ulp(_, _)
ulp(m, g) == IF m \div g < Mantissa THEN g ELSE ulp(m, 2 * g)

f32_round(v) ==
    LET m == Abs(v)
        g == ulp(m, 1)
        q == m \div g
        r == m % g
        up == 2 * r > g \/ (2 * r = g /\ q % 2 = 1)
    IN  Sign(v) * (IF up THEN q + 1 ELSE q) * g

f32_add(a, b) == f32_round(a + b)
f32_sub(a, b) == f32_round(a - b)

Circle(c, r) == [shape |-> "Circle", center |-> c, radius |-> r]

(* Vec2::distance of two points of the axis: sqrt(x * x) is |x| in f32 *)
Vec2_distance(c1, c2) == Abs(f32_sub(c1, c2))

(* Shape::intersects, Circle with Circle: on one axis the comparison of    *)
(* the squares is the comparison of the lengths                            *)
Shape_intersects(self, other) ==
    Vec2_distance(self.center, other.center) <= f32_add(self.radius, other.radius)

(* Shape::distance, Circle with Circle: c1.distance(c2) - r1 - r2 *)
Shape_distance(self, other) ==
    f32_sub(f32_sub(Vec2_distance(self.center, other.center), self.radius), other.radius)

(* A caller asks for both functions, with the shapes in both orders *)
measure_circles ==
    /\ geometry.kind = "circles"
    /\ ~geometry.measured
    /\ geometry' = [geometry EXCEPT
                       !.measured = TRUE,
                       !.intersects = <<Shape_intersects(geometry.a, geometry.b),
                                        Shape_intersects(geometry.b, geometry.a)>>,
                       !.distance = <<Shape_distance(geometry.a, geometry.b),
                                      Shape_distance(geometry.b, geometry.a)>>]
    /\ UNCHANGED <<level, poses, lasers, hud, shield, panicked, next_ufo_score, weapon_cycle, high_score, allocVars,
                   stateVars, worldVars, combatVars, frameVars>>

(* Shape::Line and a circle, in whole px, in the frame of the line: its     *)
(* base at the origin and its delta along the first axis. Vectors are       *)
(* pairs; a quotient the code leaves as a fraction of px is kept as one,    *)
(* over the denominator den.                                                *)
Line(base, delta, width) == [base |-> base, delta |-> delta, width |-> width]

Vec2_sub(a, b) == <<a[1] - b[1], a[2] - b[2]>>
Vec2_add(a, b) == <<a[1] + b[1], a[2] + b[2]>>
Vec2_dot(a, b) == a[1] * b[1] + a[2] * b[2]
perp(a) == <<-a[2], a[1]>>
perp_dot(a, b) == a[1] * b[2] - a[2] * b[1]
length_squared(a) == Vec2_dot(a, a)

(* rhs * (self . rhs) / (rhs . rhs), a whole number of px for a delta along *)
(* an axis                                                                  *)
project_onto(a, b) ==
    <<(b[1] * Vec2_dot(a, b)) \div Vec2_dot(b, b), (b[2] * Vec2_dot(a, b)) \div Vec2_dot(b, b)>>

(* delta.perp().normalize(), for a delta along the first axis *)
Vec2_normalize(a) == <<Sign(a[1]), Sign(a[2])>>

(* Shape::intersects, the arm of a circle and a line *)
Shape_intersects_line(circle, line) ==
    LET norm == Vec2_normalize(perp(line.delta))
        a == Vec2_sub(circle.center, line.base)
        b == Vec2_sub(Vec2_sub(circle.center, line.base), line.delta)
        reach == (circle.radius + line.width) * (circle.radius + line.width)
    IN  IF perp_dot(norm, a) * perp_dot(norm, b) < 0
        THEN length_squared(project_onto(a, norm)) < reach
        ELSE IF length_squared(a) < length_squared(b)
             THEN length_squared(a) <= reach
             ELSE length_squared(b) <= reach

(* the t of Shape::distance and Shape::collision_point, as a fraction *)
edge_t(circle, line) ==
    LET l1q == project_onto(Vec2_sub(circle.center, line.base), line.delta)
        q == Vec2_add(l1q, line.base)
        s2 == (circle.radius + line.width) * (circle.radius + line.width)
                  - length_squared(Vec2_sub(circle.center, q))
    IN  [l1q |-> l1q, num |-> length_squared(l1q) - s2, den |-> length_squared(l1q)]

(* Shape::collision_point, the arm of a circle and a line: base + l1q * t *)
Shape_collision_point_line(circle, line) ==
    LET e == edge_t(circle, line)
    IN  [x |-> line.base[1] * e.den + e.l1q[1] * e.num,
         y |-> line.base[2] * e.den + e.l1q[2] * e.num,
         den |-> e.den]

(* Shape::distance, the arm of a circle and a line: (l1q * t).length(), of  *)
(* a vector along the first axis                                            *)
Shape_distance_line(circle, line) ==
    LET e == edge_t(circle, line)
    IN  [num |-> Abs(e.l1q[1] * e.num), den |-> e.den]

(* A caller that found the two to intersect asks for the contact point and *)
(* the distance                                                            *)
measure_circle_line ==
    /\ geometry.kind = "circle_line"
    /\ ~geometry.measured
    /\ Shape_intersects_line(geometry.circle, geometry.line)
    /\ geometry' = [geometry EXCEPT
                       !.measured = TRUE,
                       !.point = Shape_collision_point_line(geometry.circle, geometry.line),
                       !.distance = Shape_distance_line(geometry.circle, geometry.line)]
    /\ UNCHANGED <<level, poses, lasers, hud, shield, panicked, next_ufo_score, weapon_cycle, high_score, allocVars,
                   stateVars, worldVars, combatVars, frameVars>>

(* ---------------------------------------------------------------------- *)
(* components.rs: Ship::next_weapon and Ship::prev_weapon                  *)
(* ---------------------------------------------------------------------- *)

(* enum ShipWeapon *)
Weapons == {"Rapid", "Spread", "Beam", "Plasma"}

(* The arrays of (weapon, level) pairs the two functions build *)
next_weapon_levels(s) ==
    <<[weapon |-> "Rapid", level |-> s.weapon_rapid_level],
      [weapon |-> "Spread", level |-> s.weapon_spread_level],
      [weapon |-> "Beam", level |-> s.weapon_beam_level],
      [weapon |-> "Plasma", level |-> s.weapon_plasma_level]>>

prev_weapon_levels(s) ==
    <<[weapon |-> "Plasma", level |-> s.weapon_plasma_level],
      [weapon |-> "Beam", level |-> s.weapon_beam_level],
      [weapon |-> "Spread", level |-> s.weapon_spread_level],
      [weapon |-> "Rapid", level |-> s.weapon_rapid_level]>>

(* levels.iter().cycle(): after the last item of the array comes the first *)
(* again; the iterator of a non-empty array never returns None.            *)
cycle_next(levels, pos) == (pos % Len(levels)) + 1

(* The call: the array is built and the iterator stands before its first   *)
(* item.                                                                   *)
Ship_next_weapon ==
    /\ weapon_cycle.pc = "idle"
    /\ weapon_cycle' = [pc |-> "skip_while", levels |-> next_weapon_levels(ship),
                        pos |-> 1, from |-> ship.weapon]
    /\ UNCHANGED <<level, poses, lasers, hud, shield, panicked, next_ufo_score, geometry, high_score,
                   allocVars, stateVars, worldVars, combatVars, frameVars>>

Ship_prev_weapon ==
    /\ weapon_cycle.pc = "idle"
    /\ weapon_cycle' = [pc |-> "skip_while", levels |-> prev_weapon_levels(ship),
                        pos |-> 1, from |-> ship.weapon]
    /\ UNCHANGED <<level, poses, lasers, hud, shield, panicked, next_ufo_score, geometry, high_score,
                   allocVars, stateVars, worldVars, combatVars, frameVars>>

(* .skip_while(w != self.weapon).skip(1): one item is pulled; an           *)
(* item of another weapon is dropped, the item of the current weapon ends  *)
(* the skip_while and is the one item that skip(1) drops.                  *)
skip_while_step ==
    /\ weapon_cycle.pc = "skip_while"
    /\ weapon_cycle' = [weapon_cycle EXCEPT
           !.pc = IF weapon_cycle.levels[weapon_cycle.pos].weapon # ship.weapon
                  THEN "skip_while" ELSE "find_map",
           !.pos = cycle_next(weapon_cycle.levels, @)]
    /\ UNCHANGED <<level, poses, lasers, hud, shield, panicked, next_ufo_score, geometry, high_score,
                   allocVars, stateVars, worldVars, combatVars, frameVars>>

(* The item find_map's closure accepts: one whose level l is > 0 *)
find_map_accepts(item) == item.level > 0

(* .find_map(..): one item is pulled by the closure of find_map; the       *)
(* first item with a level above 0 is the result, which is assigned to     *)
(* self.weapon. find_map returns None, and unwrap_or its Rapid, only when  *)
(* the iterator ends, which a cycle does not.                              *)
find_map_step ==
    /\ weapon_cycle.pc = "find_map"
    /\ LET item == weapon_cycle.levels[weapon_cycle.pos] IN
         IF find_map_accepts(item)
         THEN /\ ship' = [ship EXCEPT !.weapon = item.weapon]
              /\ weapon_cycle' = [weapon_cycle EXCEPT !.pc = "done"]
         ELSE /\ weapon_cycle' = [weapon_cycle EXCEPT
                     !.pos = cycle_next(weapon_cycle.levels, @)]
              /\ UNCHANGED ship
    /\ UNCHANGED <<level, poses, lasers, hud, shield, panicked, next_ufo_score, geometry, high_score,
                   allocVars, stateVars, asteroids, next_entity, combatVars, frameVars>>

(* ---------------------------------------------------------------------- *)
(* plugins/highscore.rs: the entry of a name into the high-score table.    *)
(* constants.rs, which gives MAX_HIGH_SCORE_ENTRIES and                    *)
(* NUM_HIGH_SCORE_ENTRY_LETTERS their values, is not among the sources:    *)
(* the two values are those of the build, fixed for a run.  A name is the  *)
(* sequence of its letters' places in CHARS.                               *)
(* ---------------------------------------------------------------------- *)
MAX_HIGH_SCORE_ENTRIES == high_score.max_entries
NUM_HIGH_SCORE_ENTRY_LETTERS == high_score.num_letters

(* const CHARS: the 26 letters and the 10 digits *)
CHARS == 36

HighScoreEntry(name, entry_score) == [name |-> name, score |-> entry_score]

(* entries.sort_by_key(|entry| -(entry.score as i64)): a stable sort, the  *)
(* entry x goes behind the entries whose key is not above its own          *)
RECURSIVE sort_insert(_, _)
sort_insert(sorted, x) ==
    IF sorted = <<>> THEN <<x>>
    ELSE IF -Head(sorted).score <= -x.score
         THEN <<Head(sorted)>> \o sort_insert(Tail(sorted), x)
         ELSE <<x>> \o sorted

RECURSIVE sort_by_key(_)
sort_by_key(entries) ==
    IF entries = <<>> THEN <<>>
    ELSE sort_insert(sort_by_key(SubSeq(entries, 1, Len(entries) - 1)),
                     entries[Len(entries)])

(* Vec::truncate *)
truncate(entries, len) == SubSeq(entries, 1, Min(Len(entries), len))

(* the push of the new entry, the sort and the truncate *)
submit(entries, name, value) ==
    truncate(sort_by_key(Append(entries, HighScoreEntry(name, value))),
             NUM_HIGH_SCORE_ENTRY_LETTERS)

(* init_highscore_entry, the OnEnter(HighScoreEntry) system: the letters   *)
(* of the name are spawned, each an "A", when the score is a high score    *)
init_highscore_entry ==
    /\ app_state = "HighScoreEntry"
    /\ ~high_score.entered
    /\ LET is_high_score ==
               \/ Len(high_score.entries) < MAX_HIGH_SCORE_ENTRIES
               \/ \E i \in DOMAIN high_score.entries : high_score.entries[i].score < score
       IN  high_score' = [high_score EXCEPT
               !.entered = TRUE,
               !.letters = IF is_high_score
                           THEN [i \in 1..NUM_HIGH_SCORE_ENTRY_LETTERS |-> 0]
                           ELSE <<>>]
    /\ UNCHANGED <<level, poses, lasers, hud, shield, panicked, next_ufo_score, geometry,
                   weapon_cycle, allocVars, stateVars, worldVars, combatVars, frameVars>>

(* the loop over the letters: the letter selected steps through CHARS *)
letters_turned(letters, selected, up, down) ==
    [i \in DOMAIN letters |->
        IF i - 1 = selected
        THEN LET turned == IF up THEN (letters[i] + 1) % CHARS ELSE letters[i]
             IN  IF down THEN (turned + CHARS - 1) % CHARS ELSE turned
        ELSE letters[i]]

(* highscore_entry_input, one frame of it *)
highscore_entry_input ==
    /\ app_state = "HighScoreEntry"
    /\ next_state = NoState
    /\ high_score.entered
    /\ high_score.frames < MaxEntryFrames
    /\ \E ok \in BOOLEAN, up \in BOOLEAN, down \in BOOLEAN :
          LET h == [high_score EXCEPT !.frames = @ + 1]
              last == ok /\ h.letters # <<>>
                         /\ h.selected + 1 = NUM_HIGH_SCORE_ENTRY_LETTERS
              after == IF ~ok \/ h.letters = <<>> THEN h
                       ELSE IF last
                            THEN [h EXCEPT !.entries = submit(@, h.letters, score),
                                           !.before = h.entries,
                                           !.submitted = <<HighScoreEntry(h.letters, score)>>,
                                           !.selected = 0]
                            ELSE [h EXCEPT !.selected = @ + 1]
          IN  /\ high_score' = [after EXCEPT
                     !.letters = letters_turned(@, after.selected, up, down)]
              /\ next_state' = IF ok /\ (h.letters = <<>> \/ last)
                               THEN "HighScore" ELSE next_state
    /\ UNCHANGED <<level, poses, lasers, hud, shield, panicked, next_ufo_score, geometry,
                   weapon_cycle, allocVars, app_state, level_start_delay_timer, worldVars,
                   combatVars, frameVars>>

(* ---------------------------------------------------------------------- *)
(* Specifications                                                          *)
(* ---------------------------------------------------------------------- *)

InitRest ==
    /\ score = 0
    /\ ufos = <<>>
    /\ projectiles = <<>>
    /\ powerups = <<>>
    /\ beam = NoBeam
    /\ commands = NoCommands
    /\ ran = {}
    /\ frame = 0
    /\ time_delta = DeltaStep
    /\ hits = <<>>
    /\ destroyed = <<>>
    /\ ufo_drops = <<>>
    /\ poses = <<>>
    /\ lasers = <<>>
    /\ next_ufo_score = UFO_SCORE_INTERVAL_MIN
    /\ geometry = NoGeometry
    /\ weapon_cycle = NoCycle
    /\ high_score = NoHighScore
    /\ hud = NoHud
    /\ shield = NoShield
    /\ panicked = NoPanic
    /\ alloc = IdleAlloc
    /\ app_state = "Loading"
    /\ next_state = NoState
    /\ level_start_delay_timer = Timer_from_ticks(0)
    /\ asteroids = <<>>
    /\ next_entity = 1
    /\ ship = NoShip

(* The allocator on its own, for every level number up to MaxLevel. *)
InitAlloc ==
    /\ level \in 0..MaxLevel
    /\ InitRest

NextAlloc == asteroids_iter \/ asteroids_next

SpecAlloc == InitAlloc /\ [][NextAlloc]_vars

(* Loading a level: the level counter is any value level_finished_system   *)
(* can have counted up to.                                                 *)
InitLoad ==
    /\ level \in 0..MaxLevel
    /\ InitRest

NextLoad ==
    \/ loading
    \/ apply_state_transition
    \/ \E dt \in Deltas : level_start_delay_system(dt)

SpecLoad == InitLoad /\ [][NextLoad]_vars

(* Combat: a moment of a game in which shots are in flight (the two shots  *)
(* of a Rapid volley, the three of a level 1 Spread volley, a level 1      *)
(* Plasma ball, or the beam) towards one asteroid and at most one ufo.     *)
Volley(kind) ==
    CASE kind = "Rapid" ->
             [e \in 3..4 |-> ShipProjectileBundle_new("Rapid", 0, TimeScale \div 4, 1 * PowerScale)]
      [] kind = "Spread" ->
             [e \in 3..5 |-> ShipProjectileBundle_new("Spread", 0, TimeScale \div 5, 1 * PowerScale)]
      [] kind = "Plasma" ->
             [e \in 3..3 |-> ShipProjectileBundle_new("Plasma", 4 * PowerScale, TimeScale \div 2,
                                                      4 * PowerScale)]
      [] kind = "Beam" ->
             [e \in 3..3 |-> [kind |-> "Beam", power |-> 20 * PowerScale, radius |-> 0,
                              expiring |-> FALSE, life |-> 0]]

(* The ship among the obstacles, no key pressed: a ship with up to         *)
(* MaxShield charges and MaxLives lives, next to an asteroid or a ufo, and *)
(* one of the powerups that act on lives and shield.                       *)
ShipSystems ==
    {"ship_physics", "ship_respawn_system", "ship_powerup_collision_system",
     "ship_asteroid_collision_system", "ship_ufo_collision_system"}

InitShip ==
    /\ level = 0
    /\ score = 0
    /\ alloc = IdleAlloc
    /\ app_state = "InGame"
    /\ next_state = NoState
    /\ level_start_delay_timer = Timer_tick(Timer_from_ticks(LEVEL_START_DELAY), LEVEL_START_DELAY)
    /\ \/ /\ asteroids = (1 :> AsteroidBundle_new(asteroid_variant(level), Tiny))
          /\ ufos = <<>>
       \/ /\ asteroids = <<>>
          /\ ufos = (2 :> [life |-> 1])
    /\ \E kind \in {"ExtraLife", "LoseLife", "Shield"} :
          powerups = (3 :> [kind |-> kind, life |-> 5 * TimeScale])
    /\ next_entity = 4
    /\ projectiles = <<>>
    /\ beam = NoBeam
    /\ \E shield_level \in 0..MaxShield, lives \in 1..MaxLives :
          ship = Ship_new("Rapid", 1, shield_level, lives)
    /\ commands = NoCommands
    /\ ran = {}
    /\ frame = 0
    /\ time_delta \in Deltas
    /\ hits = <<>>
    /\ destroyed = <<>>
    /\ ufo_drops = <<>>
    /\ poses = <<>>
    /\ lasers = <<>>
    /\ next_ufo_score = UFO_SCORE_INTERVAL_MIN
    /\ geometry = NoGeometry
    /\ weapon_cycle = NoCycle
    /\ high_score = NoHighScore
    /\ hud = NoHud
    /\ shield = NoShield
    /\ panicked = NoPanic

NextShip ==
    \/ ship_physics
    \/ ship_respawn_system
    \/ ship_powerup_collision_system
    \/ ship_asteroid_collision_system
    \/ ship_ufo_collision_system
    \/ update_flush(ShipSystems, MaxShipFrames)

SpecShip == InitShip /\ [][NextShip]_vars

(* The beam: a ship with the Beam selected, a ufo and a Beam powerup.      *)
BeamSystems ==
    {"ship_control_system", "ship_physics", "ship_respawn_system",
     "ship_powerup_collision_system", "ship_ufo_collision_system"}

InitBeam ==
    /\ level = 0
    /\ score = 0
    /\ alloc = IdleAlloc
    /\ app_state = "InGame"
    /\ next_state = NoState
    /\ level_start_delay_timer = Timer_tick(Timer_from_ticks(LEVEL_START_DELAY), LEVEL_START_DELAY)
    /\ asteroids = <<>>
    /\ ufos = (1 :> [life |-> 1])
    /\ powerups = (2 :> [kind |-> "Beam", life |-> 5 * TimeScale])
    /\ next_entity = 3
    /\ projectiles = <<>>
    /\ beam = NoBeam
    /\ \E beam_level \in 1..MaxStartLevel : ship = Ship_new("Beam", beam_level, 0, MaxLives)
    /\ commands = NoCommands
    /\ ran = {}
    /\ frame = 0
    /\ time_delta \in Deltas
    /\ hits = <<>>
    /\ destroyed = <<>>
    /\ ufo_drops = <<>>
    /\ poses = <<>>
    /\ lasers = <<>>
    /\ next_ufo_score = UFO_SCORE_INTERVAL_MIN
    /\ geometry = NoGeometry
    /\ weapon_cycle = NoCycle
    /\ high_score = NoHighScore
    /\ hud = NoHud
    /\ shield = NoShield
    /\ panicked = NoPanic

NextBeam ==
    \/ ship_control_system
    \/ ship_physics
    \/ ship_respawn_system
    \/ ship_powerup_collision_system
    \/ ship_ufo_collision_system
    \/ update_flush(BeamSystems, MaxBeamFrames)

SpecBeam == InitBeam /\ [][NextBeam]_vars

(* The weapon levels: a ship whose weapons are unowned, at their first     *)
(* level or at their last, a weapon powerup within reach and a ufo.        *)
WeaponPowerups == {"Laser", "Spread", "Beam", "Plasma"}

StartLevels == {0, 1, 8}

WeaponSystems ==
    {"ship_respawn_system", "ship_powerup_collision_system", "ship_ufo_collision_system"}

InitWeapons ==
    /\ level = 0
    /\ score = 0
    /\ alloc = IdleAlloc
    /\ app_state = "InGame"
    /\ next_state = NoState
    /\ level_start_delay_timer = Timer_tick(Timer_from_ticks(LEVEL_START_DELAY), LEVEL_START_DELAY)
    /\ asteroids = <<>>
    /\ ufos = (1 :> [life |-> 1])
    /\ \E kind \in WeaponPowerups :
          powerups = (2 :> [kind |-> kind, life |-> 5 * TimeScale])
    /\ next_entity = 3
    /\ projectiles = <<>>
    /\ beam = NoBeam
    /\ \E rapid \in StartLevels \ {0}, spread \in StartLevels, beam_level \in StartLevels,
          plasma \in StartLevels :
          ship = [Ship_new("Rapid", beam_level, 0, MaxLives)
                     EXCEPT !.weapon_rapid_level = rapid,
                            !.weapon_spread_level = spread,
                            !.weapon_plasma_level = plasma]
    /\ commands = NoCommands
    /\ ran = {}
    /\ frame = 0
    /\ time_delta \in Deltas
    /\ hits = <<>>
    /\ destroyed = <<>>
    /\ ufo_drops = <<>>
    /\ poses = <<>>
    /\ lasers = <<>>
    /\ next_ufo_score = UFO_SCORE_INTERVAL_MIN
    /\ geometry = NoGeometry
    /\ weapon_cycle = NoCycle
    /\ high_score = NoHighScore
    /\ hud = NoHud
    /\ shield = NoShield
    /\ panicked = NoPanic

NextWeapons ==
    \/ ship_respawn_system
    \/ ship_powerup_collision_system
    \/ ship_ufo_collision_system
    \/ update_flush(WeaponSystems, MaxShipFrames)

SpecWeapons == InitWeapons /\ [][NextWeapons]_vars

(* Motion: a moment of a game with a Small asteroid, whole or shot to      *)
(* pieces in the frame before, and a Tiny one, on levels whose asteroids   *)
(* break in two and in three.                                              *)
MotionSystems ==
    {"moving_system", "spinning_system", "wrapping_system", "collision_shape_system",
     "asteroid_hit_system", "asteroid_split_system"}

InitMotion ==
    /\ level \in {0, 20}
    /\ score = 0
    /\ alloc = IdleAlloc
    /\ app_state = "InGame"
    /\ next_state = NoState
    /\ level_start_delay_timer = Timer_tick(Timer_from_ticks(LEVEL_START_DELAY), LEVEL_START_DELAY)
    /\ \E integrity \in {0, Small * 4 + 1} :
          asteroids = (1 :> [AsteroidBundle_new(asteroid_variant(level), Small)
                                EXCEPT !.integrity = integrity]) @@
                      (2 :> AsteroidBundle_new(asteroid_variant(level), Tiny))
    /\ \E first \in -1..1, second \in {-MaxCoord, MaxCoord},
          heading \in {-MaxSpeed, MaxSpeed} :
          poses = propagate_transforms(
                      (1 :> AsteroidBundle_pose(first, heading)) @@
                      (2 :> AsteroidBundle_pose(second, -heading)))
    /\ next_entity = 3
    /\ lasers = <<>>
    /\ next_ufo_score = UFO_SCORE_INTERVAL_MIN
    /\ geometry = NoGeometry
    /\ weapon_cycle = NoCycle
    /\ high_score = NoHighScore
    /\ hud = NoHud
    /\ shield = NoShield
    /\ panicked = NoPanic
    /\ ufos = <<>>
    /\ projectiles = <<>>
    /\ powerups = <<>>
    /\ beam = NoBeam
    /\ ship = NoShip
    /\ commands = NoCommands
    /\ ran = {}
    /\ frame = 0
    /\ time_delta \in Deltas
    /\ hits = <<>>
    /\ destroyed = <<>>
    /\ ufo_drops = <<>>

NextMotion ==
    \/ moving_system
    \/ spinning_system
    \/ wrapping_system
    \/ collision_shape_system
    \/ asteroid_hit_system
    \/ asteroid_split_system
    \/ update_flush(MotionSystems, MaxMotionFrames)

SpecMotion == InitMotion /\ [][NextMotion]_vars

(* Two asteroids adrift, a Small and a Tiny one, overlapping or apart, at   *)
(* speeds that differ.                                                     *)
BounceSystems == {"moving_system", "collision_shape_system", "asteroid_hit_system"}

InitBounce ==
    /\ level = 0
    /\ score = 0
    /\ alloc = IdleAlloc
    /\ app_state = "InGame"
    /\ next_state = NoState
    /\ level_start_delay_timer = Timer_tick(Timer_from_ticks(LEVEL_START_DELAY), LEVEL_START_DELAY)
    /\ asteroids = (1 :> AsteroidBundle_new(asteroid_variant(level), Small)) @@
                   (2 :> AsteroidBundle_new(asteroid_variant(level), Tiny))
    /\ \E first \in {-1, 1}, second \in {-MaxCoord, 0},
          drift \in -MaxDrift..MaxDrift, other \in -MaxDrift..MaxDrift :
          poses = propagate_transforms(
                      (1 :> AsteroidBundle_pose(first, drift)) @@
                      (2 :> AsteroidBundle_pose(second, other)))
    /\ next_entity = 3
    /\ lasers = <<>>
    /\ next_ufo_score = UFO_SCORE_INTERVAL_MIN
    /\ geometry = NoGeometry
    /\ weapon_cycle = NoCycle
    /\ high_score = NoHighScore
    /\ hud = NoHud
    /\ shield = NoShield
    /\ panicked = NoPanic
    /\ ufos = <<>>
    /\ projectiles = <<>>
    /\ powerups = <<>>
    /\ beam = NoBeam
    /\ ship = NoShip
    /\ commands = NoCommands
    /\ ran = {}
    /\ frame = 0
    /\ time_delta \in Deltas
    /\ hits = <<>>
    /\ destroyed = <<>>
    /\ ufo_drops = <<>>

NextBounce ==
    \/ moving_system
    \/ collision_shape_system
    \/ asteroid_hit_system
    \/ update_flush(BounceSystems, MaxBounceFrames)

SpecBounce == InitBounce /\ [][NextBounce]_vars

(* The end of a level: a Small asteroid shot to pieces in the frame        *)
(* before, or a ufo over an empty field, and the two shots of a Rapid      *)
(* volley in flight.                                                       *)
LevelSystems ==
    {"ship_projectile_asteroid_hit_system", "ship_projectile_ufo_hit_system",
     "asteroid_split_system", "level_finished_system"}

InitLevel ==
    /\ level \in {0, 19}
    /\ score = 0
    /\ alloc = IdleAlloc
    /\ app_state = "InGame"
    /\ next_state = NoState
    /\ level_start_delay_timer = Timer_tick(Timer_from_ticks(LEVEL_START_DELAY), LEVEL_START_DELAY)
    /\ \/ /\ \E size \in {Tiny, Small} :
                asteroids = (1 :> [AsteroidBundle_new(asteroid_variant(level), size)
                                      EXCEPT !.integrity = 0])
          /\ ufos = <<>>
       \/ /\ asteroids = <<>>
          /\ ufos = (2 :> [life |-> 1])
    /\ projectiles = Volley("Rapid")
    /\ beam = NoBeam
    /\ next_entity = 3 + Cardinality(DOMAIN Volley("Rapid"))
    /\ powerups = <<>>
    /\ ship = StartShip
    /\ commands = NoCommands
    /\ ran = {}
    /\ frame = 0
    /\ time_delta \in Deltas
    /\ hits = <<>>
    /\ destroyed = <<>>
    /\ ufo_drops = <<>>
    /\ poses = <<>>
    /\ lasers = <<>>
    /\ next_ufo_score = UFO_SCORE_INTERVAL_MIN
    /\ geometry = NoGeometry
    /\ weapon_cycle = NoCycle
    /\ high_score = NoHighScore
    /\ hud = NoHud
    /\ shield = NoShield
    /\ panicked = NoPanic

NextLevel ==
    \/ ship_projectile_asteroid_hit_system
    \/ ship_projectile_ufo_hit_system
    \/ asteroid_split_system
    \/ level_finished_system
    \/ update_flush(LevelSystems, MaxLevelFrames)
    \/ apply_state_transition

SpecLevel == InitLevel /\ [][NextLevel]_vars

(* A state of play with zero ships: the ship and its shield child are gone *)
ZeroShips ==
    /\ ship = NoShip
    /\ shield = NoShield

HudSystems ==
    {"ufo_shoot_system", "update_hud_system", "update_hud_text_system", "shield_sprite",
     "ship_ufo_collision_system"}

(* A field in InGame with one UFO; the ship and its shield child are there *)
(* or not                                                                  *)
InitHud ==
    /\ level = 0
    /\ score = 0
    /\ alloc = IdleAlloc
    /\ app_state = "InGame"
    /\ next_state = NoState
    /\ level_start_delay_timer = Timer_tick(Timer_from_ticks(LEVEL_START_DELAY), LEVEL_START_DELAY)
    /\ asteroids = <<>>
    /\ \E delay \in {DeltaStep, UFO_SHOOT_DELAY} : ufos = (1 :> [life |-> 1, shoot_delay |-> delay])
    /\ next_entity = 2
    /\ projectiles = <<>>
    /\ powerups = <<>>
    /\ beam = NoBeam
    /\ \/ /\ \E shield_level \in 0..MaxShield, lives \in 1..MaxLives :
                ship = Ship_new("Rapid", 1, shield_level, lives)
          /\ shield = [exists |-> TRUE, visible |-> FALSE]
       \/ ZeroShips
    /\ commands = NoCommands
    /\ ran = {}
    /\ frame = 0
    /\ time_delta \in Deltas
    /\ hits = <<>>
    /\ destroyed = <<>>
    /\ ufo_drops = <<>>
    /\ poses = <<>>
    /\ lasers = <<>>
    /\ next_ufo_score = UFO_SCORE_INTERVAL_MIN
    /\ geometry = NoGeometry
    /\ weapon_cycle = NoCycle
    /\ high_score = NoHighScore
    /\ hud = NoHud
    /\ panicked = NoPanic

NextHud ==
    \/ ufo_shoot_system
    \/ update_hud_system
    \/ update_hud_text_system
    \/ shield_sprite
    \/ ship_ufo_collision_system
    \/ update_flush(HudSystems, MaxHudFrames)

SpecHud == InitHud /\ [][NextHud]_vars

(* The beam among targets: a ship whose beam is not spawned yet, or is     *)
(* idle and retracted, or was left extended when the pilot selected the    *)
(* Rapid weapon; an asteroid and a ufo.                                    *)
BeamHitSystems ==
    {"ship_control_system", "ship_physics", "ship_projectile_asteroid_hit_system",
     "ship_projectile_ufo_hit_system"}

InitBeamHit ==
    /\ level = 0
    /\ score = 0
    /\ alloc = IdleAlloc
    /\ app_state = "InGame"
    /\ next_state = NoState
    /\ level_start_delay_timer = Timer_tick(Timer_from_ticks(LEVEL_START_DELAY), LEVEL_START_DELAY)
    /\ asteroids = (1 :> AsteroidBundle_new(asteroid_variant(level), Small))
    /\ ufos = (2 :> [life |-> UFO_LIFE])
    /\ powerups = <<>>
    /\ next_entity = 4
    /\ \E beam_level \in 1..MaxStartLevel :
          \/ /\ ship = Ship_new("Beam", beam_level, 0, MaxLives)
             /\ beam = NoBeam
             /\ projectiles = <<>>
          \/ /\ ship = Ship_new("Beam", beam_level, 0, MaxLives)
             /\ beam = [exists |-> TRUE, length |-> 0, max_length |-> Beam_limit(ship),
                        sustained |-> 0, cooldown |-> 0, since |-> BEAM_HIT_INTERVAL]
             /\ projectiles = Volley("Beam")
          \/ /\ ship = Ship_new("Rapid", beam_level, 0, MaxLives)
             /\ beam = [exists |-> TRUE, length |-> Beam_limit(ship),
                        max_length |-> Beam_limit(ship),
                        sustained |-> DeltaStep, cooldown |-> 0, since |-> BEAM_HIT_INTERVAL]
             /\ projectiles = Volley("Beam")
    /\ commands = NoCommands
    /\ ran = {}
    /\ frame = 0
    /\ time_delta \in Deltas
    /\ hits = <<>>
    /\ destroyed = <<>>
    /\ ufo_drops = <<>>
    /\ poses = <<>>
    /\ lasers = <<>>
    /\ next_ufo_score = UFO_SCORE_INTERVAL_MIN
    /\ geometry = NoGeometry
    /\ weapon_cycle = NoCycle
    /\ high_score = NoHighScore
    /\ hud = NoHud
    /\ shield = NoShield
    /\ panicked = NoPanic

(* ship_projectile_asteroid_hit_system.after(ship_physics) *)
asteroid_hit_after_ship_physics ==
    /\ "ship_physics" \in ran
    /\ ship_projectile_asteroid_hit_system

NextBeamHit ==
    \/ ship_control_system
    \/ ship_physics
    \/ asteroid_hit_after_ship_physics
    \/ ship_projectile_ufo_hit_system
    \/ update_flush(BeamHitSystems, MaxBeamHitFrames)

SpecBeamHit == InitBeamHit /\ [][NextBeamHit]_vars

(* A new game of the UFO plugin: the threshold drawn when the plugin was   *)
(* built, Tiny and Large asteroids destroyed in the frames that follow.    *)
UfoScoreSystems == {"asteroid_split_system", "ufo_spawn_system"}

InitUfoScore ==
    /\ level = 0
    /\ score \in {0, 300}
    /\ alloc = IdleAlloc
    /\ app_state = "NewGame"
    /\ next_state = NoState
    /\ level_start_delay_timer = Timer_tick(Timer_from_ticks(LEVEL_START_DELAY), LEVEL_START_DELAY)
    /\ \E sizes \in {<<Tiny>>, <<Large, Tiny>>, <<Large, Large>>} :
          asteroids = [e \in 1..Len(sizes) |->
                          [AsteroidBundle_new(asteroid_variant(level), sizes[e])
                              EXCEPT !.integrity = 0]]
    /\ next_entity = 3
    /\ \E draw \in 0..MaxDraw : next_ufo_score = ufo_random_ufo_interval(draw)
    /\ hits = <<>>
    /\ ufos = <<>>
    /\ projectiles = <<>>
    /\ powerups = <<>>
    /\ beam = NoBeam
    /\ ship = StartShip
    /\ commands = NoCommands
    /\ ran = {}
    /\ frame = 0
    /\ time_delta \in Deltas
    /\ destroyed = <<>>
    /\ ufo_drops = <<>>
    /\ poses = <<>>
    /\ lasers = <<>>
    /\ geometry = NoGeometry
    /\ weapon_cycle = NoCycle
    /\ high_score = NoHighScore
    /\ hud = NoHud
    /\ shield = NoShield
    /\ panicked = NoPanic

NextUfoScoreStep ==
    \/ reset_next_ufo_score
    \/ asteroid_split_system
    \/ ufo_plugin_spawn_system
    \/ update_flush(UfoScoreSystems, MaxSpawnFrames)

SpecUfoScore == InitUfoScore /\ [][NextUfoScoreStep]_vars

(* A call of next_weapon or prev_weapon on a ship with any of the four    *)
(* weapons selected and each of the four levels at 0 or above. The steps   *)
(* of the iterator chain follow one another without a pause, so a step     *)
(* that can be taken is taken.                                             *)
InitCycle ==
    /\ level = 0
    /\ score = 0
    /\ alloc = IdleAlloc
    /\ app_state = "InGame"
    /\ next_state = NoState
    /\ level_start_delay_timer = Timer_tick(Timer_from_ticks(LEVEL_START_DELAY), LEVEL_START_DELAY)
    /\ asteroids = <<>>
    /\ ufos = <<>>
    /\ powerups = <<>>
    /\ next_entity = 1
    /\ projectiles = <<>>
    /\ beam = NoBeam
    /\ \E weapon \in Weapons, rapid \in 0..MaxCycleLevel, spread \in 0..MaxCycleLevel,
          beam_level \in 0..MaxCycleLevel, plasma \in 0..MaxCycleLevel :
          ship = [Ship_new(weapon, beam_level, 0, MaxLives)
                     EXCEPT !.weapon_rapid_level = rapid,
                            !.weapon_spread_level = spread,
                            !.weapon_plasma_level = plasma]
    /\ commands = NoCommands
    /\ ran = {}
    /\ frame = 0
    /\ time_delta = DeltaStep
    /\ hits = <<>>
    /\ destroyed = <<>>
    /\ ufo_drops = <<>>
    /\ poses = <<>>
    /\ lasers = <<>>
    /\ next_ufo_score = UFO_SCORE_INTERVAL_MIN
    /\ geometry = NoGeometry
    /\ weapon_cycle = NoCycle
    /\ high_score = NoHighScore
    /\ hud = NoHud
    /\ shield = NoShield
    /\ panicked = NoPanic

NextCycle ==
    \/ Ship_next_weapon
    \/ Ship_prev_weapon
    \/ skip_while_step
    \/ find_map_step

SpecCycle == InitCycle /\ [][NextCycle]_vars

SpecCycleFair == SpecCycle /\ WF_vars(skip_while_step) /\ WF_vars(find_map_step)

(* The invulnerable ship: a ship fresh from its respawn, or not, with an   *)
(* asteroid, a ufo and a ufo's laser about it.                             *)
InvulnerableSystems ==
    {"ship_physics", "ship_asteroid_collision_system", "ship_ufo_collision_system",
     "ship_ufo_laser_collision_system"}

InitInvulnerable ==
    /\ level = 0
    /\ score = 0
    /\ alloc = IdleAlloc
    /\ app_state = "InGame"
    /\ next_state = NoState
    /\ level_start_delay_timer = Timer_tick(Timer_from_ticks(LEVEL_START_DELAY), LEVEL_START_DELAY)
    /\ asteroids = (1 :> AsteroidBundle_new(asteroid_variant(level), Tiny))
    /\ ufos = (2 :> [life |-> 1])
    /\ lasers = (3 :> [life |-> UFO_LASER_LIFE])
    /\ powerups = <<>>
    /\ next_entity = 4
    /\ projectiles = <<>>
    /\ beam = NoBeam
    /\ \E shield_level \in 0..MaxShield, lives \in 1..MaxLives,
          invulnerability \in {0, DeltaStep, SHIP_INVULNERABILITY} :
          ship = [Ship_new("Rapid", 1, shield_level, lives)
                     EXCEPT !.invulnerability = invulnerability]
    /\ commands = NoCommands
    /\ ran = {}
    /\ frame = 0
    /\ time_delta \in Deltas
    /\ hits = <<>>
    /\ destroyed = <<>>
    /\ ufo_drops = <<>>
    /\ poses = <<>>
    /\ next_ufo_score = UFO_SCORE_INTERVAL_MIN
    /\ geometry = NoGeometry
    /\ weapon_cycle = NoCycle
    /\ high_score = NoHighScore
    /\ hud = NoHud
    /\ shield = NoShield
    /\ panicked = NoPanic

NextInvulnerable ==
    \/ ship_physics
    \/ ship_asteroid_collision_system
    \/ ship_ufo_collision_system
    \/ ship_ufo_laser_collision_system
    \/ update_flush(InvulnerableSystems, MaxInvulnerableFrames)

SpecInvulnerable == InitInvulnerable /\ [][NextInvulnerable]_vars

(* The end of a game: a table as earlier entries have left it, in         *)
(* descending order and no longer than the entry of a name leaves it, and  *)
(* the score of the game that has ended.                                   *)
RECURSIVE Tables(_)
Tables(len) ==
    IF len = 0 THEN {<<>>}
    ELSE LET shorter == Tables(len - 1)
         IN  shorter \cup
             {Append(t, HighScoreEntry(<<Len(t)>>, s)) :
                 t \in {u \in shorter : Len(u) = len - 1}, s \in 1..MaxHighScore}

Descending(entries) ==
    \A i \in DOMAIN entries : i > 1 => entries[i - 1].score >= entries[i].score

InitHighScore ==
    /\ level = 0
    /\ score \in 1..MaxHighScore
    /\ alloc = IdleAlloc
    /\ app_state = "HighScoreEntry"
    /\ next_state = NoState
    /\ level_start_delay_timer = Timer_tick(Timer_from_ticks(LEVEL_START_DELAY), LEVEL_START_DELAY)
    /\ asteroids = <<>>
    /\ ufos = <<>>
    /\ powerups = <<>>
    /\ next_entity = 1
    /\ projectiles = <<>>
    /\ beam = NoBeam
    /\ ship = StartShip
    /\ commands = NoCommands
    /\ ran = {}
    /\ frame = 0
    /\ time_delta = DeltaStep
    /\ hits = <<>>
    /\ destroyed = <<>>
    /\ ufo_drops = <<>>
    /\ poses = <<>>
    /\ lasers = <<>>
    /\ next_ufo_score = UFO_SCORE_INTERVAL_MIN
    /\ geometry = NoGeometry
    /\ weapon_cycle = NoCycle
    /\ \E max_entries \in 1..MaxTable, num_letters \in 1..MaxTable :
       \E entries \in {t \in Tables(num_letters) : Descending(t)} :
          high_score = [entries |-> entries, max_entries |-> max_entries,
                        num_letters |-> num_letters, entered |-> FALSE, letters |-> <<>>,
                        selected |-> 0, frames |-> 0, before |-> <<>>, submitted |-> <<>>]
    /\ hud = NoHud
    /\ shield = NoShield
    /\ panicked = NoPanic

NextHighScore ==
    \/ init_highscore_entry
    \/ highscore_entry_input
    \/ apply_state_transition

SpecHighScore == InitHighScore /\ [][NextHighScore]_vars

(* The choice of the weapon: a ship that owns the Rapid and some of the    *)
(* other weapons, whose pilot presses any of the selector keys.            *)
SelectSystems == {"ship_control_system", "ship_physics"}

InitSelect ==
    /\ level = 0
    /\ score = 0
    /\ alloc = IdleAlloc
    /\ app_state = "InGame"
    /\ next_state = NoState
    /\ level_start_delay_timer = Timer_tick(Timer_from_ticks(LEVEL_START_DELAY), LEVEL_START_DELAY)
    /\ asteroids = <<>>
    /\ ufos = <<>>
    /\ powerups = <<>>
    /\ next_entity = 1
    /\ projectiles = <<>>
    /\ beam = NoBeam
    /\ \E spread \in 0..1, beam_level \in 0..1, plasma \in 0..1 :
          ship = [Ship_new("Rapid", beam_level, 0, MaxLives)
                     EXCEPT !.weapon_spread_level = spread,
                            !.weapon_plasma_level = plasma]
    /\ commands = NoCommands
    /\ ran = {}
    /\ frame = 0
    /\ time_delta \in Deltas
    /\ hits = <<>>
    /\ destroyed = <<>>
    /\ ufo_drops = <<>>
    /\ poses = <<>>
    /\ lasers = <<>>
    /\ next_ufo_score = UFO_SCORE_INTERVAL_MIN
    /\ geometry = NoGeometry
    /\ weapon_cycle = NoCycle
    /\ high_score = NoHighScore
    /\ hud = NoHud
    /\ shield = NoShield
    /\ panicked = NoPanic

NextSelect ==
    \/ ship_controlled(Keys)
    \/ ship_physics
    \/ update_flush(SelectSystems, MaxSelectFrames)

SpecSelect == InitSelect /\ [][NextSelect]_vars

(* The discrete weapons: a ship with the Rapid, the Spread or the Plasma   *)
(* selected, at the first level or (the Spread's volley of 17 aside) at    *)
(* the last, whose pilot holds or releases the trigger.                    *)
DiscreteWeapons == {"Rapid", "Spread", "Plasma"}

FireSystems == {"ship_control_system", "ship_physics"}

InitFire ==
    /\ level = 0
    /\ score = 0
    /\ alloc = IdleAlloc
    /\ app_state = "InGame"
    /\ next_state = NoState
    /\ level_start_delay_timer = Timer_tick(Timer_from_ticks(LEVEL_START_DELAY), LEVEL_START_DELAY)
    /\ asteroids = <<>>
    /\ ufos = <<>>
    /\ powerups = <<>>
    /\ next_entity = 1
    /\ projectiles = <<>>
    /\ beam = NoBeam
    /\ \E weapon \in DiscreteWeapons, weapon_level \in {1, 8} :
          /\ weapon = "Spread" => weapon_level = 1
          /\ ship = [Ship_new(weapon, 1, 0, MaxLives)
                        EXCEPT !.weapon_rapid_level = IF weapon = "Rapid" THEN weapon_level ELSE 1,
                               !.weapon_spread_level = IF weapon = "Spread" THEN weapon_level ELSE 0,
                               !.weapon_plasma_level = IF weapon = "Plasma" THEN weapon_level ELSE 0]
    /\ commands = NoCommands
    /\ ran = {}
    /\ frame = 0
    /\ time_delta \in Deltas
    /\ hits = <<>>
    /\ destroyed = <<>>
    /\ ufo_drops = <<>>
    /\ poses = <<>>
    /\ lasers = <<>>
    /\ next_ufo_score = UFO_SCORE_INTERVAL_MIN
    /\ geometry = NoGeometry
    /\ weapon_cycle = NoCycle
    /\ high_score = NoHighScore
    /\ hud = NoHud
    /\ shield = NoShield
    /\ panicked = NoPanic

NextFire ==
    \/ ship_control_system
    \/ ship_physics
    \/ update_flush(FireSystems, MaxFireFrames)

SpecFire == InitFire /\ [][NextFire]_vars

SpawnSystems == {"asteroid_split_system", "ufo_spawn_system"}

(* Play just short of the UFO threshold, with asteroids whose integrity    *)
(* the projectiles of the last frame brought to 0, on levels whose         *)
(* asteroids break in two and in three                                     *)
InitSpawn ==
    /\ level \in {0, 20}
    /\ alloc = IdleAlloc
    /\ app_state = "InGame"
    /\ next_state = NoState
    /\ level_start_delay_timer = Timer_tick(Timer_from_ticks(LEVEL_START_DELAY), LEVEL_START_DELAY)
    /\ \E threshold \in random_ufo_interval, short \in {50, 300}, sizes \in {<<Tiny>>, <<Small, Tiny>>, <<Large, Large, Tiny>>} :
          /\ level = 20 => Len(sizes) <= 2
          /\ next_ufo_score = threshold
          /\ score = threshold - short
          /\ asteroids = [e \in 1..Len(sizes) |->
                             [AsteroidBundle_new(asteroid_variant(level), sizes[e])
                                 EXCEPT !.integrity = 0]]
    /\ next_entity = 4
    /\ ufos = <<>>
    /\ projectiles = <<>>
    /\ powerups = <<>>
    /\ beam = NoBeam
    /\ ship = StartShip
    /\ commands = NoCommands
    /\ ran = {}
    /\ frame = 0
    /\ time_delta \in Deltas
    /\ hits = <<>>
    /\ destroyed = <<>>
    /\ ufo_drops = <<>>
    /\ poses = <<>>
    /\ lasers = <<>>
    /\ geometry = NoGeometry
    /\ weapon_cycle = NoCycle
    /\ high_score = NoHighScore
    /\ hud = NoHud
    /\ shield = NoShield
    /\ panicked = NoPanic

NextSpawn ==
    \/ asteroid_split_system
    \/ ufo_spawn_system
    \/ update_flush(SpawnSystems, MaxSpawnFrames)

SpecSpawn == InitSpawn /\ [][NextSpawn]_vars

(* the radii of the game's circles, in px: the asteroids' and the ship's *)
CircleRadii == {4, 8, 12, 16, 24}
(* whole-pixel distances between two centres: overlapping, touching the    *)
(* smallest pair, apart                                                    *)
Offsets == {0, 1, 8, 9, 48}

InitCircles ==
    \E ra \in CircleRadii, rb \in CircleRadii, whole \in Offsets, frac \in 0..MaxFrac,
       side \in {-1, 1} :
        geometry = [kind |-> "circles", measured |-> FALSE,
                    a |-> Circle(0, ra * SubPixel),
                    b |-> Circle(f32_round(side * (whole * SubPixel + frac)), rb * SubPixel),
                    intersects |-> <<>>, distance |-> <<>>]

(* the beam's line and a target's circle ahead of the ship, on the beam's  *)
(* axis or beside it                                                       *)
BEAM_SHAPE_WIDTH == 4

InitCircleLine ==
    \E r \in {4, 8}, along \in 1..MaxAlong, across \in -MaxAcross..MaxAcross :
        geometry = [kind |-> "circle_line", measured |-> FALSE,
                    circle |-> Circle(<<along, across>>, r),
                    line |-> Line(<<0, 0>>, <<BEAM_SHAPE_LENGTH, 0>>, BEAM_SHAPE_WIDTH),
                    point |-> <<>>, distance |-> <<>>]

InitShape ==
    /\ level = 0
    /\ score = 0
    /\ alloc = IdleAlloc
    /\ app_state = "InGame"
    /\ next_state = NoState
    /\ level_start_delay_timer = Timer_tick(Timer_from_ticks(LEVEL_START_DELAY), LEVEL_START_DELAY)
    /\ asteroids = <<>>
    /\ ufos = <<>>
    /\ next_entity = 1
    /\ projectiles = <<>>
    /\ powerups = <<>>
    /\ beam = NoBeam
    /\ ship = NoShip
    /\ commands = NoCommands
    /\ ran = {}
    /\ frame = 0
    /\ time_delta = DeltaStep
    /\ hits = <<>>
    /\ destroyed = <<>>
    /\ ufo_drops = <<>>
    /\ poses = <<>>
    /\ lasers = <<>>
    /\ next_ufo_score = UFO_SCORE_INTERVAL_MIN
    /\ hud = NoHud
    /\ shield = NoShield
    /\ panicked = NoPanic
    /\ weapon_cycle = NoCycle
    /\ high_score = NoHighScore
    /\ InitCircles \/ InitCircleLine

NextShape ==
    \/ measure_circles
    \/ measure_circle_line

SpecShape == InitShape /\ [][NextShape]_vars

CombatSystems ==
    {"ship_projectile_asteroid_hit_system", "ship_projectile_ufo_hit_system",
     "asteroid_split_system", "expiring_system"}

InitCombat ==
    /\ level = 0
    /\ score = 0
    /\ alloc = IdleAlloc
    /\ app_state = "InGame"
    /\ next_state = NoState
    /\ level_start_delay_timer = Timer_tick(Timer_from_ticks(LEVEL_START_DELAY), LEVEL_START_DELAY)
    /\ \/ /\ \E size \in AsteroidSize, integrity \in {1, MaxStartIntegrity} :
                /\ integrity <= AsteroidBundle_new(0, size).integrity
                /\ asteroids = (1 :> [AsteroidBundle_new(asteroid_variant(level), size)
                                         EXCEPT !.integrity = integrity])
          /\ ufos = <<>>
       \/ /\ asteroids = <<>>
          /\ \E life \in 1..MaxUfoLife : ufos = (2 :> [life |-> life])
    /\ \E kind \in {"Rapid", "Plasma", "Beam"} :
          /\ projectiles = Volley(kind)
          /\ beam = IF kind = "Beam"
                    THEN [exists |-> TRUE, length |-> 0, max_length |-> 1,
                          sustained |-> 0, cooldown |-> 0, since |-> BEAM_HIT_INTERVAL]
                    ELSE NoBeam
          /\ next_entity = 3 + Cardinality(DOMAIN Volley(kind))
    /\ powerups = <<>>
    /\ ship = NoShip
    /\ commands = NoCommands
    /\ ran = {}
    /\ frame = 0
    /\ time_delta \in Deltas
    /\ hits = <<>>
    /\ destroyed = <<>>
    /\ ufo_drops = <<>>
    /\ poses = <<>>
    /\ lasers = <<>>
    /\ next_ufo_score = UFO_SCORE_INTERVAL_MIN
    /\ geometry = NoGeometry
    /\ weapon_cycle = NoCycle
    /\ high_score = NoHighScore
    /\ hud = NoHud
    /\ shield = NoShield
    /\ panicked = NoPanic

NextCombat ==
    \/ ship_projectile_asteroid_hit_system
    \/ ship_projectile_ufo_hit_system
    \/ asteroid_split_system
    \/ expiring_system
    \/ update_flush(CombatSystems, MaxFrames)

SpecCombat == InitCombat /\ [][NextCombat]_vars

(* ---------------------------------------------------------------------- *)
(* Properties                                                              *)
(* ---------------------------------------------------------------------- *)
RECURSIVE SumCost(_)
SumCost(seq) == IF seq = <<>> THEN 0 ELSE cost(Head(seq)) + SumCost(Tail(seq))

Last(seq) == seq[Len(seq)]

(* C1: every next() of Level::asteroids leaves the remaining budget >= 0:  *)
(* the size drawn from the allowed set is yielded only when its full cost  *)
(* fits into the budget, and otherwise exactly 1 unit is spent on a Tiny   *)
(* asteroid, and only while the budget is still positive.                  *)
C1_BudgetNeverNegative ==
    [][ /\ alloc'.budget >= 0
        /\ (alloc.pc = "iter" /\ alloc'.pc = "iter" /\ alloc' # alloc) =>
              LET drawn == cycle_at(asteroid_sizes(level), alloc.pos)
                  item == Last(alloc'.out)
              IN  /\ Len(alloc'.out) = Len(alloc.out) + 1
                  /\ \/ /\ item = drawn
                        /\ cost(drawn) <= alloc.budget
                        /\ alloc'.budget = alloc.budget - cost(drawn)
                     \/ /\ item = Tiny
                        /\ cost(drawn) > alloc.budget
                        /\ alloc.budget > 0
                        /\ alloc'.budget = alloc.budget - 1
      ]_vars

(* a Tiny asteroid was bought with the left-over budget of a level whose   *)
(* allowed set has no Tiny, and the budget ended at exactly 0              *)
C1_Witness ==
    /\ alloc.pc = "done"
    /\ level <= 12
    /\ alloc.budget = 0
    /\ \E i \in 1..Len(alloc.out) : alloc.out[i] = Tiny

(* C2: the sequence Level::asteroids yields is finite and its costs sum to *)
(* exactly (level mod 20 + 2) * cost(Large), with cost(Tiny) = 1, every    *)
(* larger size twice the next smaller one and cost(Large) = 8.             *)
C2_CostsSumToBudget ==
    LET total == ((level % 20) + 2) * 8
    IN  /\ cost(Tiny) = 1
        /\ \A s \in AsteroidSize \ {Tiny} : cost(s) = 2 * cost(smaller(s))
        /\ cost(Large) = 8
        /\ alloc.pc \in {"iter", "done"} =>
              /\ SumCost(alloc.out) + alloc.budget = total
              /\ Len(alloc.out) <= total
        /\ alloc.pc = "done" => SumCost(alloc.out) = total

(* the iterator has ended for a level past the wrap of level mod 20 *)
C2_Witness ==
    /\ alloc.pc = "done"
    /\ level >= 20
    /\ Len(alloc.out) > 0

CountSize(size) == Cardinality({e \in DOMAIN asteroids : asteroids[e].size = size})

(* C3: for every level from 0 to 4 the allowed size set is {Large} and     *)
(* load_level spawns exactly level + 2 Large asteroids and no asteroid of  *)
(* another size; level 0 spawns exactly 2 Large asteroids.                 *)
C3_LowLevelsSpawnLarge ==
    [][ (app_state # "LoadLevel" /\ app_state' = "LoadLevel" /\ level <= 4) =>
            LET spawned == DOMAIN asteroids' \ DOMAIN asteroids
            IN  /\ asteroid_sizes(level) = <<Large>>
                /\ Cardinality(spawned) = level + 2
                /\ \A e \in spawned : asteroids'[e].size = Large
                /\ level = 0 => Cardinality(spawned) = 2
      ]_vars

(* level 4 has been loaded: six Large asteroids are in the world *)
C3_Witness ==
    /\ app_state = "LoadLevel"
    /\ level = 4
    /\ CountSize(Large) = 6
    /\ Cardinality(DOMAIN asteroids) = 6

(* C4: every asteroid whose integrity reaches <= 0 is destroyed exactly    *)
(* once: asteroid_split_system runs its destruction once for it, awards    *)
(* the score of its size (Tiny 50, Small 100, Medium 150, Large 200) once, *)
(* queues one despawn, and the asteroid is gone when the next frame        *)
(* starts; an asteroid at integrity <= 0 outlives at most the one flush    *)
(* of the frame in which asteroid_split_system had already run.            *)
C4_AsteroidDestroyedOnce ==
    /\ \A e \in DOMAIN destroyed :
          LET h == destroyed[e]
          IN  /\ h.times <= 1
              /\ h.flushes <= 1
              /\ h.times = 1 => /\ h.awarded = 50 * (h.size + 1)
                                /\ h.size \in AsteroidSize
                                /\ e \in DOMAIN asteroids =>
                                      /\ "asteroid_split_system" \in ran
                                      /\ BagCount(commands.despawn, e) = 1
              /\ h.times = 0 => h.awarded = 0

C4_Witness ==
    \E e \in DOMAIN destroyed :
        /\ destroyed[e].times = 1
        /\ destroyed[e].flushes = 1
        /\ destroyed[e].size = Small
        /\ e \notin DOMAIN asteroids
        /\ Cardinality(DOMAIN asteroids) = asteroid_frag_count(level)
        /\ score = 100

(* C5: a ufo whose life reaches <= 0 produces exactly one powerup, one     *)
(* explosion and one award of 100, however many ship projectiles exist or  *)
(* hit it in that frame.                                                   *)
C5_UfoDestroyedOnce ==
    \A u \in DOMAIN ufo_drops :
        /\ ufo_drops[u].powerups = 1
        /\ ufo_drops[u].explosions = 1
        /\ ufo_drops[u].awarded = 100
        /\ BagCount(commands.despawn, u) <= 1

(* C6: a Plasma projectile's power never increases across a hit, and the   *)
(* projectile is despawned by a hit exactly when that hit brings its power *)
(* from above 0 to <= 0, never while its power is still > 0.               *)
C6_PlasmaDespawnedAtZeroPower ==
    \A i \in DOMAIN hits :
        hits[i].kind = "Plasma" =>
            /\ hits[i].power_after <= hits[i].power
            /\ hits[i].despawned <=> (hits[i].power > 0 /\ hits[i].power_after <= 0)

(* C7: after each hit a Plasma projectile's stored power equals its power  *)
(* before the hit minus the applied effect min(penetration, remaining      *)
(* integrity of the target).                                               *)
C7_PlasmaPowerConsumed ==
    \A i \in DOMAIN hits :
        hits[i].kind = "Plasma" =>
            /\ hits[i].effect = Min(hits[i].depth, hits[i].before * PowerScale)
            /\ hits[i].power_after = hits[i].power - hits[i].effect

(* C8: in every state the beam's max_length is at most BEAM_BASE_LENGTH +  *)
(* BEAM_LENGTH_PER_LEVEL * the ship's current beam level, whatever the     *)
(* firing, idling, level changes and deaths before it.                     *)
C8_BeamMaxLengthWithinLimit ==
    (beam.exists /\ ship.exists) => beam.max_length <= Beam_limit(ship)

C10_LivesFlooredAtZero ==
    /\ ship.exists => ship.lives \in 0..(MaxLives + 1)
    /\ \A i \in DOMAIN hits :
          LET b == hits[i].before
              a == hits[i].after
              floored == IF b.lives > 0 THEN b.lives - 1 ELSE 0
          IN  /\ hits[i].kind = "die" => /\ a.lives = floored
                                        /\ a.respawn_delay = SHIP_RESPAWN_DELAY
              /\ hits[i].kind = "LoseLife" => a.lives = floored
              /\ (hits[i].kind = "asteroid" /\ b.shield_level = 0) => a.lives = floored

C10_Witness ==
    \E i \in DOMAIN hits :
        /\ hits[i].kind = "die"
        /\ hits[i].before.lives = 0
        /\ hits[i].after.lives = 0
        /\ hits[i].after.respawn_delay = SHIP_RESPAWN_DELAY

WeaponLevels(s) ==
    <<s.weapon_rapid_level, s.weapon_spread_level, s.weapon_beam_level, s.weapon_plasma_level>>

(* the level of the weapon that a powerup raises *)
LevelOf(s, powerup) ==
    CASE powerup = "Laser" -> s.weapon_rapid_level
      [] powerup = "Spread" -> s.weapon_spread_level
      [] powerup = "Beam" -> s.weapon_beam_level
      [] powerup = "Plasma" -> s.weapon_plasma_level

(* C11: every weapon level is within 0..8 in every state; a weapon powerup *)
(* raises its weapon's level by 1, capped at 8, and leaves the others; a   *)
(* die() lowers each level by 1, never below 0, and leaves the Rapid level *)
(* at 1 or more.                                                           *)
C11_WeaponLevelsInRange ==
    /\ ship.exists => \A i \in 1..4 : WeaponLevels(ship)[i] \in 0..8
    /\ \A i \in DOMAIN hits :
          LET b == hits[i].before
              a == hits[i].after
          IN  /\ hits[i].kind \in WeaponPowerups =>
                    /\ LevelOf(a, hits[i].kind) = Min(LevelOf(b, hits[i].kind) + 1, 8)
                    /\ \A k \in WeaponPowerups \ {hits[i].kind} : LevelOf(a, k) = LevelOf(b, k)
              /\ hits[i].kind = "die" =>
                    /\ a.weapon_rapid_level = Max(Max(b.weapon_rapid_level - 1, 0), 1)
                    /\ \A k \in 2..4 : WeaponLevels(a)[k] = Max(WeaponLevels(b)[k] - 1, 0)

(* a die() of a ship that had picked up its powerup, with an unowned       *)
(* weapon, the Rapid at level 1 and a weapon at level 8                    *)
C11_Witness ==
    /\ frame >= 1
    /\ \E i \in DOMAIN hits :
          /\ hits[i].kind = "die"
          /\ hits[i].before.weapon_rapid_level = 1
          /\ hits[i].after.weapon_rapid_level = 1
          /\ hits[i].before.weapon_plasma_level = 0
          /\ hits[i].after.weapon_plasma_level = 0
          /\ hits[i].before.weapon_spread_level = 8
          /\ hits[i].after.weapon_spread_level = 7
          /\ DOMAIN powerups = {}

MotionBefore == {"moving_system", "spinning_system", "wrapping_system", "collision_shape_system"}

(* C12: every intersection test of a frame is made after that frame's      *)
(* motion systems and collision_shape_system have run, with collision      *)
(* shapes placed where the entities' Transforms are at that moment.        *)
C12_ShapesFreshAtTest ==
    \A i \in DOMAIN hits :
        hits[i].kind = "test" =>
            /\ MotionBefore \subseteq hits[i].ran
            /\ hits[i].a_shape = hits[i].a_translation
            /\ hits[i].b_shape = hits[i].b_translation

(* C20: asteroid_hit_system never resolves an intersecting pair whose      *)
(* centres coincide and asteroid_split_system never splits an asteroid     *)
(* that is at the origin, so no asteroid's velocity is the NaN of a        *)
(* normalized zero vector.                                                 *)
C20_NoZeroVectorNormalized ==
    /\ \A i \in DOMAIN hits :
          (hits[i].kind = "test" /\ hits[i].touching) =>
              hits[i].a_translation # hits[i].b_translation
    /\ \A e \in DOMAIN commands.poses : commands.poses[e].velocity # NaN
    /\ \A e \in DOMAIN poses : poses[e].velocity # NaN

(* C13: when level_finished_system has judged the level cleared, no        *)
(* fragment is waiting to be spawned, and every asteroid larger than Tiny  *)
(* that was destroyed has had its fragments in the field and destroyed as  *)
(* well: destroying the last asteroid larger than Tiny does not advance    *)
(* the level.                                                              *)
C13_FragmentsCountedBeforeCleared ==
    (app_state = "InGame" /\ next_state = "LoadLevel") =>
        /\ DOMAIN commands.asteroids = {}
        /\ \A e \in DOMAIN destroyed :
              (destroyed[e].times >= 1 /\ destroyed[e].size # Tiny) =>
                  Cardinality({f \in DOMAIN destroyed :
                                  /\ destroyed[f].times >= 1
                                  /\ destroyed[f].size = smaller(destroyed[e].size)})
                      >= asteroid_frag_count(level - 1)

C13_Witness ==
    /\ app_state = "InGame"
    /\ next_state = "LoadLevel"
    /\ \E e \in DOMAIN destroyed : destroyed[e].times = 1 /\ destroyed[e].size = Small
    /\ Cardinality(DOMAIN destroyed) = 1 + asteroid_frag_count(level - 1)

(* C14: at the end of every frame, every asteroid whose integrity is <= 0  *)
(* has been through that frame's destruction pass: the damage of a frame   *)
(* is applied before asteroid_split_system looks at the asteroids.         *)
C14_DamageBeforeDestruction ==
    ran = CombatSystems =>
        \A e \in DOMAIN asteroids :
            asteroids[e].integrity <= 0 => HistoryOf(destroyed, e).times >= 1

ClaimedTransitions ==
    {<<"Loading", "Title">>, <<"Title", "NewGame">>, <<"NewGame", "LoadLevel">>,
     <<"LoadLevel", "InGame">>, <<"InGame", "LoadLevel">>,
     <<"InGame", "HighScoreEntry">>, <<"InGame", "HighScore">>}

(* C15: the application state changes only along Loading -> Title ->       *)
(* NewGame -> LoadLevel -> InGame, and from InGame to LoadLevel or to the  *)
(* high-score states; InGame is entered only from LoadLevel, when the      *)
(* level-start delay has finished.                                         *)
C15_StateTransitions ==
    [][app_state' # app_state =>
          /\ <<app_state, app_state'>> \in ClaimedTransitions
          /\ app_state' = "InGame" => level_start_delay_timer.finished]_vars

(* C16: a ship that has died and has no lives left is not respawned to     *)
(* continue play: while it waits with lives = 0, either its respawn timer  *)
(* keeps running or the game leaves InGame.                                *)
C16_NoRespawnWithoutLives ==
    [][(ship.exists /\ ship.lives = 0 /\ ship.respawn_delay > 0) =>
          (ship'.respawn_delay > 0 \/ app_state' # "InGame" \/ next_state' # NoState)]_vars

(* C17: every hit of a Rapid or Spread projectile despawns it and takes    *)
(* one point off its target, none when the target has none left, and a     *)
(* projectile hits once: never two targets, never one target twice.        *)
C17_OneHitPerProjectile ==
    \A i \in DOMAIN hits :
        (hits[i].kind \in {"Rapid", "Spread"}) =>
            /\ hits[i].despawned
            /\ hits[i].after = Max(hits[i].before - 1, 0)
            /\ \A j \in DOMAIN hits : hits[j].projectile = hits[i].projectile => j = i

(* C18: no step lowers the score or the level; the score changes only by   *)
(* growing and the level only by growing by one, in a step that finds no   *)
(* asteroid left.                                                          *)
C18_ScoreAndLevelMonotone ==
    [][/\ score' >= score
       /\ level' >= level
       /\ level' # level => (level' = level + 1 /\ DOMAIN asteroids = {})]_vars

(* a level cleared, with the awards for a Small asteroid and its fragments *)
C18_Witness ==
    /\ level = 20
    /\ score = asteroid_score(Small) + asteroid_frag_count(19) * asteroid_score(Tiny)
    /\ app_state = "LoadLevel"

C21_CirclesSymmetric ==
    (geometry.kind = "circles" /\ geometry.measured) =>
        /\ geometry.intersects[1] = geometry.intersects[2]
        /\ geometry.distance[1] = geometry.distance[2]
        /\ geometry.intersects[1] =
               (Abs(geometry.a.center - geometry.b.center)
                    <= geometry.a.radius + geometry.b.radius)

(* The part of C21 that is about intersects alone *)
C21_IntersectsSymmetric ==
    (geometry.kind = "circles" /\ geometry.measured) =>
        /\ geometry.intersects[1] = geometry.intersects[2]
        /\ geometry.intersects[1] =
               (Abs(geometry.a.center - geometry.b.center)
                    <= geometry.a.radius + geometry.b.radius)

(* C22: ufo_spawn_system spawns a UFO only when the score has reached the  *)
(* threshold, and after a spawn the threshold is greater than the score.   *)
C22_ThresholdPassesScore ==
    [][(DOMAIN commands'.ufos # DOMAIN commands.ufos /\ commands'.ufos # <<>>) =>
           /\ score >= next_ufo_score
           /\ next_ufo_score' > score']_vars

(* The part of C22 that is about when a UFO is spawned *)
C22_SpawnOnlyAtThreshold ==
    [][(DOMAIN commands'.ufos # DOMAIN commands.ufos /\ commands'.ufos # <<>>) =>
           score >= next_ufo_score]_vars

(* the hits of the beam that took integrity or life from their target *)
BeamDamage == {i \in DOMAIN hits : hits[i].kind = "Beam" /\ hits[i].after < hits[i].before}

(* C23: the beam damages a target only while the ship is firing with the   *)
(* Beam selected.                                                          *)
C23_BeamDamagesOnlyWhileFired ==
    \A i \in BeamDamage : ship.exists /\ ship.fire /\ ship.weapon = "Beam"

(* C24: the beam damages a target at most once per BEAM_HIT_INTERVAL of    *)
(* simulated time, whatever the frame deltas and however many targets it   *)
(* intersects.                                                             *)
C24_BeamDamageOncePerInterval ==
    \A i \in BeamDamage : hits[i].since >= BEAM_HIT_INTERVAL

(* C25: the beam never hits a target that is farther along the beam than   *)
(* beam.length.                                                            *)
C25_BeamHitsWithinLength ==
    \A i \in DOMAIN hits : hits[i].kind = "Beam" => hits[i].depth <= hits[i].length

(* ship_physics took its fire branch with the Beam selected *)
BeamFired == ship'.fire /\ ship'.weapon = "Beam" /\ ship'.weapon_cooldown <= 0

(* C26: in a frame in which the ship does not fire the Beam, ship_physics  *)
(* retracts a beam that has length and leaves sustained and max_length     *)
(* alone, and resets sustained and recharges max_length once the length is *)
(* 0; in a frame in which the ship fires it, sustained grows and           *)
(* max_length does not.                                                    *)
C26_BeamPhases ==
    [][(beam.exists /\ "ship_physics" \in ran' /\ "ship_physics" \notin ran) =>
           IF BeamFired
           THEN /\ beam'.sustained > beam.sustained
                /\ beam'.max_length <= beam.max_length
           ELSE IF beam.length > 0
                THEN /\ beam'.length < beam.length
                     /\ beam'.sustained = beam.sustained
                     /\ beam'.max_length = beam.max_length
                ELSE /\ beam'.sustained = 0
                     /\ beam'.max_length >= beam.max_length]_vars

(* The same, for the frames in which the Beam is the selected weapon *)
C26_BeamPhasesWhileSelected ==
    [][(beam.exists /\ ship'.weapon = "Beam" /\ "ship_physics" \in ran'
            /\ "ship_physics" \notin ran) =>
           IF BeamFired
           THEN /\ beam'.sustained > beam.sustained
                /\ beam'.max_length <= beam.max_length
           ELSE IF beam.length > 0
                THEN /\ beam'.length < beam.length
                     /\ beam'.sustained = beam.sustained
                     /\ beam'.max_length = beam.max_length
                ELSE /\ beam'.sustained = 0
                     /\ beam'.max_length >= beam.max_length]_vars

(* a run of ship_physics that spawned projectiles *)
DiscreteFire == commands'.projectiles # commands.projectiles /\ "ship_physics" \in ran'
                    /\ "ship_physics" \notin ran

(* the ship of weapon w at level l, for the cooldown its fire sets *)
ShipAt(w, l) ==
    [Ship_new(w, 1, 0, 1) EXCEPT !.weapon_rapid_level = l, !.weapon_spread_level = l,
                                 !.weapon_plasma_level = l]

(* C27: a discrete weapon (Rapid, Spread, Plasma) fires only in a frame in *)
(* which ship.fire is set and weapon_cooldown, counted down by the frame's *)
(* delta, is <= 0; the fire sets weapon_cooldown to a strictly positive    *)
(* value, at every weapon level 1..8; and the time since the fire before   *)
(* it is at least the cooldown that fire set.                              *)
C27_FiresAfterCooldown ==
    /\ [][DiscreteFire =>
            /\ ship.weapon \in DiscreteWeapons
            /\ ship.fire
            /\ (IF ship.weapon_cooldown > 0 THEN ship.weapon_cooldown - time_delta
                                            ELSE ship.weapon_cooldown) <= 0
            /\ ship'.weapon_cooldown > 0
            /\ ship'.weapon_cooldown = ship_fires(ship).cooldown
            /\ ship.since_fire + time_delta >= ship.fired_cooldown]_vars
    /\ [](\A w \in DiscreteWeapons, l \in 1..8 : ship_fires(ShipAt(w, l)).cooldown > 0)

(* the second shot of a ship whose first shot set a cooldown longer than a *)
(* frame: the shot in flight was spawned at least that cooldown earlier    *)
C27_Witness ==
    /\ ship.exists
    /\ ship.fired_cooldown > DeltaStep
    /\ ship.since_fire = 0
    /\ projectiles # <<>>
    /\ commands.projectiles # <<>>
    /\ frame >= 2

(* the fragments a run of asteroid_split_system queued *)
Fragments == {x \in DOMAIN commands'.asteroids : x \notin DOMAIN commands.asteroids}

(* the asteroids a run of asteroid_split_system found destroyed *)
Destroyed == {e \in DOMAIN asteroids : asteroids[e].integrity <= 0}

(* C28: a run of asteroid_split_system spawns, for every destroyed         *)
(* asteroid that has a smaller size, exactly 2 + level / 20 fragments of   *)
(* the next smaller size, with the parent's variant and the full integrity *)
(* size * 4 + 1 of their size, and nothing else: none for a Tiny one.      *)
C28_FragmentsOfDestroyed ==
    [][("asteroid_split_system" \in ran' /\ "asteroid_split_system" \notin ran) =>
          /\ \A x \in Fragments :
                /\ commands'.asteroids[x].size \in {Tiny, Small, Medium}
                /\ commands'.asteroids[x].integrity = commands'.asteroids[x].size * 4 + 1
                /\ \E e \in Destroyed :
                      /\ asteroids[e].size = commands'.asteroids[x].size + 1
                      /\ asteroids[e].variant = commands'.asteroids[x].variant
          /\ \A size \in {Small, Medium, Large}, variant \in 0..(ASTEROID_VARIANTS - 1) :
                Cardinality({x \in Fragments :
                                /\ commands'.asteroids[x].size = size - 1
                                /\ commands'.asteroids[x].variant = variant})
                    = (2 + level \div 20)
                        * Cardinality({e \in Destroyed : /\ asteroids[e].size = size
                                                         /\ asteroids[e].variant = variant})
          /\ (\A e \in Destroyed : asteroids[e].size = Tiny) => Fragments = {}]_vars

(* a Small asteroid of a level past the 20th and a Tiny one, destroyed in  *)
(* the same frame: three Tiny fragments wait to be spawned                 *)
C28_Witness ==
    /\ level = 20
    /\ "asteroid_split_system" \in ran
    /\ \E e \in DOMAIN destroyed : destroyed[e].times = 1 /\ destroyed[e].size = Small
    /\ \E e \in DOMAIN destroyed : destroyed[e].times = 1 /\ destroyed[e].size = Tiny
    /\ Cardinality(DOMAIN commands.asteroids) = 3
    /\ \A x \in DOMAIN commands.asteroids :
          commands.asteroids[x] = AsteroidBundle_new(asteroid_variant(level), Tiny)

(* the square of the distance between the contact point and the centre of  *)
(* the circle, times the square of the point's denominator                 *)
PointFromCentre ==
    LET c == geometry.circle.center
        p == geometry.point
    IN  (p.x - c[1] * p.den) * (p.x - c[1] * p.den) + (p.y - c[2] * p.den) * (p.y - c[2] * p.den)

Reach == geometry.circle.radius + geometry.line.width

(* C29: for a circle and a line that intersect, collision_point lies on    *)
(* the line's axis at distance exactly radius + width from the circle's    *)
(* centre, and distance is the length from the line's base to that point.  *)
C29_CollisionPointOnBoundary ==
    (geometry.kind = "circle_line" /\ geometry.measured) =>
        /\ geometry.point.y = 0
        /\ PointFromCentre = Reach * Reach * geometry.point.den * geometry.point.den
        /\ geometry.distance.den = geometry.point.den
        /\ geometry.distance.num = Abs(geometry.point.x)

(* The part of C29 that is about the distance and the line's axis *)
C29_DistanceToPoint ==
    (geometry.kind = "circle_line" /\ geometry.measured) =>
        /\ geometry.point.y = 0
        /\ geometry.distance.den = geometry.point.den
        /\ geometry.distance.num = Abs(geometry.point.x)

(* the pair of a test is moving apart: with the velocities it has, its     *)
(* separation grows under a small step                                     *)
MovingApart(i) ==
    LET a == poses[hits'[i].a]
        b == poses[hits'[i].b]
    IN  /\ a.velocity # NaN
        /\ b.velocity # NaN
        /\ (a.translation - b.translation) * (a.velocity - b.velocity) > 0
        /\ (a.shape - b.shape) * (a.velocity - b.velocity) > 0

(* C30: asteroid_hit_system leaves the velocities of an intersecting pair  *)
(* as they are when the pair is already moving apart.                      *)
C30_MovingApartLeftAlone ==
    [][("asteroid_hit_system" \in ran' /\ "asteroid_hit_system" \notin ran) =>
          \A i \in DOMAIN hits' :
              (hits'[i].kind = "test" /\ hits'[i].touching /\ MovingApart(i)) =>
                  /\ poses'[hits'[i].a].velocity = poses[hits'[i].a].velocity
                  /\ poses'[hits'[i].b].velocity = poses[hits'[i].b].velocity]_vars

(* C31: for a draw r in [0, 1), random_ufo_interval returns the truncation *)
(* of MIN + r * (MAX - MIN): a value within [MIN_UFO_SCORE_INTERVAL,       *)
(* MAX_UFO_SCORE_INTERVAL] that differs between draws.                     *)
C31_IntervalFollowsDraw ==
    \A i \in DOMAIN hits :
        hits[i].kind = "interval" =>
            /\ hits[i].interval =
                   (MIN_UFO_SCORE_INTERVAL * Draws
                        + hits[i].draw * (MAX_UFO_SCORE_INTERVAL - MIN_UFO_SCORE_INTERVAL))
                       \div Draws
            /\ hits[i].interval >= MIN_UFO_SCORE_INTERVAL
            /\ hits[i].interval <= MAX_UFO_SCORE_INTERVAL

(* The part of C31 that is about the bounds of the interval *)
C31_IntervalWithinBounds ==
    \A i \in DOMAIN hits :
        hits[i].kind = "interval" =>
            /\ hits[i].interval >= MIN_UFO_SCORE_INTERVAL
            /\ hits[i].interval <= MAX_UFO_SCORE_INTERVAL

(* C32: a ship loses at most one life per death: while its respawn delay   *)
(* is running, no collision with an asteroid or a ufo takes a life or      *)
(* restarts the respawn timer.                                             *)
C32_OneLifePerDeath ==
    \A i \in DOMAIN hits :
        (hits[i].kind \in {"asteroid", "die"} /\ hits[i].before.respawn_delay > 0) =>
            /\ hits[i].after.lives = hits[i].before.lives
            /\ hits[i].after.respawn_delay = hits[i].before.respawn_delay

(* the level of the weapon w of the ship s *)
WeaponLevel(s, w) ==
    CASE w = "Rapid" -> s.weapon_rapid_level
      [] w = "Spread" -> s.weapon_spread_level
      [] w = "Beam" -> s.weapon_beam_level
      [] w = "Plasma" -> s.weapon_plasma_level

(* C33: in every state the ship's active weapon has level >= 1: a weapon   *)
(* that is not owned is never the active one.                              *)
C33_ActiveWeaponOwned ==
    (ship.exists /\ ship # StartShip) => WeaponLevel(ship, ship.weapon) >= 1

(* the place of the weapon w in the array of a driven call *)
PlaceOf(levels, w) == CHOOSE i \in DOMAIN levels : levels[i].weapon = w

(* the item k places after the weapon the call started from, in cyclic    *)
(* order; the 4th is the weapon itself                                     *)
After(levels, w, k) == levels[((PlaceOf(levels, w) + k - 1) % Len(levels)) + 1]

(* the call has chosen the next owned weapon after the one it started from *)
SelectedNextOwned ==
    \E k \in 1..Len(weapon_cycle.levels) :
        /\ After(weapon_cycle.levels, weapon_cycle.from, k).level > 0
        /\ ship.weapon = After(weapon_cycle.levels, weapon_cycle.from, k).weapon
        /\ \A j \in 1..(k - 1) : After(weapon_cycle.levels, weapon_cycle.from, j).level = 0

NoWeaponOwned == \A i \in DOMAIN weapon_cycle.levels : weapon_cycle.levels[i].level = 0

(* C34: a call of next_weapon or prev_weapon ends, whatever the levels and *)
(* the current weapon, and when it has ended the ship's weapon is the next *)
(* owned weapon (level > 0) in cyclic order, possibly the one it had, and  *)
(* the Rapid when no weapon is owned.                                      *)
C34_CycleTerminates ==
    /\ (weapon_cycle.pc # "idle") ~> (weapon_cycle.pc = "done")
    /\ [](weapon_cycle.pc = "done" =>
            IF NoWeaponOwned THEN ship.weapon = "Rapid" ELSE SelectedNextOwned)

(* The part of C34 that is about the weapon chosen by a call that ends *)
C34_SelectsNextOwned ==
    weapon_cycle.pc = "done" => (~NoWeaponOwned /\ SelectedNextOwned)

(* C35: in every state 0 <= beam.length <= beam.max_length, through        *)
(* firing, overheating, the clamping by the hit systems, retraction and    *)
(* recharge.                                                               *)
C35_BeamLengthWithinMax ==
    beam.exists => (0 <= beam.length /\ beam.length <= beam.max_length)

(* C36: each cleared level advances the level counter by exactly 1: the    *)
(* level changes only by growing by one, in a step that finds no asteroid  *)
(* and asks for the change from InGame to LoadLevel with none asked for    *)
(* before, and each such request comes with the increment; so there is     *)
(* one increment per change of state, never two for one cleared level.     *)
C36_OneIncrementPerClearedLevel ==
    [][/\ level' # level =>
            /\ level' = level + 1
            /\ DOMAIN asteroids = {}
            /\ app_state = "InGame" /\ app_state' = "InGame"
            /\ next_state = NoState /\ next_state' = "LoadLevel"
       /\ (app_state = "InGame" /\ next_state # "LoadLevel" /\ next_state' = "LoadLevel") =>
            level' = level + 1
       /\ (app_state = "InGame" /\ app_state' = "LoadLevel") => level' = level]_vars

(* the level after the first has been loaded, one frame after the first    *)
(* was found cleared                                                       *)
C36_Witness ==
    /\ app_state = "LoadLevel"
    /\ level = 1
    /\ frame >= 1
    /\ DOMAIN asteroids # {}

(* the systems that test the ship against the asteroids, the ufos and the *)
(* ufos' lasers                                                            *)
ShipCollisionSystems ==
    {"ship_asteroid_collision_system", "ship_ufo_collision_system",
     "ship_ufo_laser_collision_system"}

(* C37: while ship.invulnerability > 0, a run of a ship collision system   *)
(* (asteroid, ufo, ufo laser) leaves the ship's lives, shield_level,       *)
(* respawn_delay and velocity as they were.                                *)
C37_InvulnerableShipUntouched ==
    [][(/\ ship.exists
        /\ ship.invulnerability > 0
        /\ \E system \in ShipCollisionSystems : ran' = ran \cup {system} /\ system \notin ran) =>
           /\ ship'.lives = ship.lives
           /\ ship'.shield_level = ship.shield_level
           /\ ship'.respawn_delay = ship.respawn_delay
           /\ ship'.velocity = ship.velocity
           /\ ship'.velocity_nan = ship.velocity_nan]_vars

(* a frame in which the three systems have run on an invulnerable ship     *)
(* with an asteroid, a ufo and a laser about it                            *)
C37_Witness ==
    /\ ship.invulnerability > 0
    /\ ShipCollisionSystems \subseteq ran
    /\ "ship_physics" \in ran
    /\ DOMAIN asteroids # {} /\ DOMAIN lasers # {}
    /\ \E e \in DOMAIN ufos : ufos[e].life > 0
    /\ ship.lives = MaxLives /\ ship.respawn_delay = 0

(* how often the entry x stands in the table *)
Occurs(entries, x) == Cardinality({i \in DOMAIN entries : entries[i] = x})

(* the n previous entries and the new one *)
Candidates == high_score.before \o high_score.submitted

(* C38: after a new score is submitted the table holds exactly the         *)
(* min(n + 1, MAX_HIGH_SCORE_ENTRIES) highest-scoring of the n previous    *)
(* entries and the new one, in descending order of score: no entry that    *)
(* ranks within the top MAX_HIGH_SCORE_ENTRIES is dropped.                 *)
C38_TableKeepsTopEntries ==
    high_score.submitted # <<>> =>
        /\ Len(high_score.entries) = Min(Len(Candidates), MAX_HIGH_SCORE_ENTRIES)
        /\ Descending(high_score.entries)
        /\ \A i \in DOMAIN Candidates :
              LET x == Candidates[i]
              IN  /\ Occurs(high_score.entries, x) <= Occurs(Candidates, x)
                  /\ Occurs(high_score.entries, x) < Occurs(Candidates, x) =>
                        \A j \in DOMAIN high_score.entries :
                            high_score.entries[j].score >= x.score
        /\ \A j \in DOMAIN high_score.entries :
              Occurs(Candidates, high_score.entries[j]) > 0

(* The part of C38 that holds: what the table keeps are the highest of the *)
(* candidates, in descending order; how many it keeps is the number of     *)
(* letters of a name.                                                      *)
C38_TableKeepsAsManyAsLetters ==
    high_score.submitted # <<>> =>
        /\ Len(high_score.entries) = Min(Len(Candidates), NUM_HIGH_SCORE_ENTRY_LETTERS)
        /\ Descending(high_score.entries)

====
